---- MODULE Spec2Model ----
(***************************************************************************)
(* Model of the Moultrie Mobile integration: the API client                *)
(* (custom_components/moultrie/api.py), the polling coordinator            *)
(* (coordinator.py), the on-demand button (button.py) and the setting      *)
(* entities (switch.py, select.py).                                        *)
(*                                                                         *)
(* A step of the model is what the event loop runs between two network     *)
(* waits: the arrival of one HTTP response together with all the code that *)
(* runs synchronously after it, up to the next request that is sent.       *)
(*                                                                         *)
(* Tokens are natural numbers: token response number k of the identity     *)
(* provider carries access token k and refresh token k, and the pair the   *)
(* config entry was created with is number 0.                              *)
(***************************************************************************)
EXTENDS Integers, Sequences, FiniteSets, TLC

\* ---------------------------------------------------------------- bounds
\* the number of token responses the identity provider issues
MaxTokens == 2

\* ------------------------------------------------------------- constants
DeviceIds == {1, 2}
Procs == {"poll", "user", "setter", "direct"}
NoTok == -1
None == "None"

\* the lists of devices the Devices endpoint may return, in the API's order
DeviceLists == {<<>>, <<1>>, <<2>>, <<1, 2>>}

\* the options of a dropdown setting, each a display text and a value
CaptureModes == << [Text |-> "Low", Value |-> "L"],
                   [Text |-> "High", Value |-> "H"] >>

\* grouped settings as returned by GetGroupedSettings: a sequence of groups,
\* each a sequence of settings; short = "" stands for a missing short code.
\* Camera 1 has a toggle (ODE) and a dropdown (CTD) that each occur in two
\* groups, the dropdown's options being listed with its last occurrence
\* only, and has taken a picture; camera 2 is new: no settings group and no
\* picture yet
CloudSettings(id) ==
  IF id = 1
    THEN << << [short |-> "ODE", value |-> "F", options |-> <<>>],
               [short |-> "", value |-> "F", options |-> <<>>],
               [short |-> "CTD", value |-> "L", options |-> <<>>] >>,
            << [short |-> "ODE", value |-> "T", options |-> <<>>],
               [short |-> "CTD", value |-> "L", options |-> CaptureModes] >> >>
    ELSE <<>>

\* the settings of camera 1 once its dropdown has been withdrawn
ReducedSettings ==
  << << [short |-> "ODE", value |-> "F", options |-> <<>>],
        [short |-> "", value |-> "F", options |-> <<>>] >>,
     << [short |-> "ODE", value |-> "T", options |-> <<>>] >> >>

\* camera 3 belongs to no account of the model: its pictures, newest first,
\* are asked for by a direct caller of the client only
CloudImages(id) ==
  CASE id = 1 -> <<"img">>
    [] id = 3 -> <<"newest", "older">>
    [] OTHER  -> <<>>

VARIABLES
  access_token,      \* MoultrieApiClient._access_token
  refresh_token,     \* MoultrieApiClient._refresh_token
  entry,             \* the config entry's data
  issued,            \* number of token responses the identity provider issued
  cloud,             \* the cameras of the account, as the vendor API lists them
  req,               \* per caller: the call of _request in flight
  login,             \* the login attempt of _async_relogin
  cyc,               \* the poll cycle (_async_update_data) in flight
  known_device_ids,  \* MoultrieCoordinator._known_device_ids
  data,              \* the snapshot consumers read (coordinator.data)
  press,             \* the button press (async_press) in flight
  setting,           \* the setting change (switch or select) in flight
  refreshRequested,  \* a coordinator refresh was requested and not yet run
  done,              \* per caller: the call of _request the last step ended
  ended,             \* the poll cycle the last step ended
  pressed,           \* the button press the last step ended
  applied,           \* the setting change the last step ended
  direct,            \* the client method a direct caller has in flight
  returned,          \* the direct client call the last step ended
  flow,              \* the login attempt of the config flow in flight
  flowed,            \* the login attempt of the config flow the last step ended
  listener,          \* the run of _update_tokens_if_changed in the last step
  pkce               \* the random values drawn by login and the PKCE values sent

vars == <<access_token, refresh_token, entry, issued, cloud, req, login, cyc,
          known_device_ids, data, press, setting, refreshRequested, done,
          ended, pressed, applied, direct, returned, flow, flowed,
          listener, pkce>>

\* ------------------------------------------------------- pure helpers
Range(s) == {s[i] : i \in 1..Len(s)}

Count(s, x) == Cardinality({i \in 1..Len(s) : s[i] = x})

\* position of the n-th occurrence of x in s, 0 when there is none
NthIndex(s, x, n) ==
  LET idx == {i \in 1..Len(s) : s[i] = x /\ Count(SubSeq(s, 1, i), x) = n}
  IN IF idx = {} THEN 0 ELSE CHOOSE i \in idx : TRUE

\* the exception a call ended with, "" when it returned
NoExc == ""

\* ------------------------------------------------- MoultrieApiClient
\* the answers of the token endpoint to a refresh or code-exchange post
TokenResponses == {"full", "noRefresh", "noAccess", "reject", "neterr"}

\* the answers of the API server to a bearer request
ApiStatuses == {200, 401, 500}

\* refresh_tokens with the stored tokens dropped when the token endpoint
\* rejects the refresh
refresh_tokens_drop(kind, at, rt, new) ==
  CASE kind = "neterr"    -> [at |-> at,  rt |-> rt,  exc |-> "ClientError"]
    [] kind = "reject"    -> [at |-> NoTok, rt |-> NoTok,
                              exc |-> "ClientResponseError"]
    [] kind = "noAccess"  -> [at |-> at,  rt |-> rt,  exc |-> "KeyError"]
    [] kind = "noRefresh" -> [at |-> new, rt |-> rt,  exc |-> "KeyError"]
    [] OTHER              -> [at |-> new, rt |-> new, exc |-> NoExc]

\* refresh_tokens: what the client's tokens become and what is raised, for a
\* token-endpoint answer of the given kind carrying token number new
refresh_tokens(kind, at, rt, new) ==
  CASE kind = "neterr"    -> [at |-> at,  rt |-> rt,  exc |-> "ClientError"]
    [] kind = "reject"    -> [at |-> at,  rt |-> rt,  exc |-> "ClientResponseError"]
    [] kind = "noAccess"  -> [at |-> at,  rt |-> rt,  exc |-> "KeyError"]
    [] kind = "noRefresh" -> [at |-> new, rt |-> rt,  exc |-> "KeyError"]
    [] OTHER              -> [at |-> new, rt |-> new, exc |-> NoExc]

\* _headers: the Authorization header carries the current access token
Headers(at) == at

\* a JSON object of the API, and the two bodies that carry no data: the
\* empty body and the body of an error response
Json(kind, devices, results, groups) ==
  [kind |-> kind, Devices |-> devices, Results |-> results,
   GroupedSettings |-> groups, SettingsSaved |-> None,
   HasUnreadNotification |-> None]

\* the answer to SaveDeviceSettings: SettingsSaved is true, false or absent
SaveBody(flag) == [Json("json", <<>>, <<>>, <<>>) EXCEPT !.SettingsSaved = flag]

\* the answer to HasUnreadNotifications: the flag is true, false or absent
NotificationBody(flag) ==
  [Json("json", <<>>, <<>>, <<>>) EXCEPT !.HasUnreadNotification = flag]

EmptyBody == Json("empty", <<>>, <<>>, <<>>)
ErrBody == Json("error", <<>>, <<>>, <<>>)
EmptyObject == Json("{}", <<>>, <<>>, <<>>)

\* the bodies a 200 response of each endpoint may carry when the account
\* has the cameras listed in devices
Bodies(ep, arg, devices) ==
  CASE ep = "Devices" -> {EmptyBody, Json("json", devices, <<>>, <<>>)}
    [] ep = "ImageSearch" ->
         {Json("json", <<>>, CloudImages(arg), <<>>)}
           \cup (IF arg = 3 THEN {EmptyBody} ELSE {})
    [] ep = "HasUnreadNotifications" ->
         {EmptyBody, NotificationBody("true"), NotificationBody("false"),
          NotificationBody(None)}
    [] ep = "GroupedSettings" -> {Json("json", <<>>, <<>>, CloudSettings(arg))}
    [] ep = "SaveDeviceSettings" ->
         {EmptyBody, SaveBody("true"), SaveBody("false"), SaveBody(None)}
    [] OTHER -> {EmptyBody, Json("json", <<>>, <<>>, <<>>)}

IdleReq == [pc |-> "idle", ep |-> "", arg |-> 0, hdr |-> <<>>, st |-> <<>>,
            bodies |-> <<>>,
            ev |-> <<>>, refTok |-> NoTok, refs |-> <<>>,
            refPair |-> NoTok,
            ret |-> EmptyObject, exc |-> NoExc,
            alone |-> TRUE, endTok |-> <<NoTok, NoTok>>]

\* entry of _request: the first attempt is sent with the current token
StartRequest(ep, arg, at) ==
  [IdleReq EXCEPT !.pc = "wait1", !.ep = ep, !.arg = arg,
                  !.hdr = <<Headers(at)>>, !.ev = <<"send">>]

\* Payload with the body handed to the JSON parser whatever its length
PayloadRaw(body) == body

\* the value _request returns for a successful response: {} for an empty body
Payload(body) == IF body.kind = "empty" THEN EmptyObject ELSE body

Returned(r, body) == [r EXCEPT !.pc = "ret", !.ret = Payload(body)]

Raised(r, e) == [r EXCEPT !.pc = "raised", !.exc = e]

\* _request, first response: 401 posts a refresh with the stored refresh
\* token, another error status raises, success returns the payload
OnFirst(r, status, body, rt) ==
  LET r1 == [r EXCEPT !.st = Append(@, status), !.bodies = Append(@, body)]
  IN CASE status = 0   -> Raised(r1, "ClientError")
       [] status = 401 -> [r1 EXCEPT !.pc = "waitRefresh", !.refTok = rt,
                                     !.ev = Append(@, "refresh")]
       [] status # 200 -> Raised(r1, "ClientResponseError")
       [] OTHER        -> Returned(r1, body)

\* OnRefresh with the retry built from the headers of the first attempt
OnRefreshStaleHeader(r, kind, out, new) ==
  LET r1 == [r EXCEPT !.refs = Append(@, kind)]
  IN IF out.exc # NoExc
       THEN Raised([r1 EXCEPT !.ev = Append(@, "refresh_failed")], out.exc)
       ELSE [r1 EXCEPT !.pc = "wait2", !.refPair = new,
                       !.hdr = Append(@, r.hdr[1]),
                       !.ev = @ \o <<"refreshed", "send">>]

\* _request, answer of the token endpoint: refresh_tokens raises, or the
\* retry is sent with the token refresh_tokens has just stored
OnRefresh(r, kind, out, new) ==
  LET r1 == [r EXCEPT !.refs = Append(@, kind)]
  IN IF out.exc # NoExc
       THEN Raised([r1 EXCEPT !.ev = Append(@, "refresh_failed")], out.exc)
       ELSE [r1 EXCEPT !.pc = "wait2", !.refPair = new,
                       !.hdr = Append(@, Headers(out.at)),
                       !.ev = @ \o <<"refreshed", "send">>]

\* OnSecond with a 401 of the retry handled like a 401 of the first attempt
OnSecondRefreshAgain(r, status, body) ==
  LET r1 == [r EXCEPT !.st = Append(@, status), !.bodies = Append(@, body)]
  IN CASE status = 0   -> Raised(r1, "ClientError")
       [] status = 401 -> [r1 EXCEPT !.pc = "waitRefresh",
                                     !.ev = Append(@, "refresh")]
       [] status # 200 -> Raised(r1, "ClientResponseError")
       [] OTHER        -> Returned(r1, body)

\* _request, response to the retry: raise_for_status, then the payload
OnSecond(r, status, body) ==
  LET r1 == [r EXCEPT !.st = Append(@, status), !.bodies = Append(@, body)]
  IN CASE status = 0   -> Raised(r1, "ClientError")
       [] status # 200 -> Raised(r1, "ClientResponseError")
       [] OTHER        -> Returned(r1, body)

\* get_latest_image reading the last element of the results array
get_latest_image_last(result) ==
  IF result.Results # <<>> THEN result.Results[Len(result.Results)] ELSE None

\* get_devices, get_device_settings, get_latest_image: what each makes of
\* the payload _request returned
get_devices(result) == result.Devices

get_device_settings(result) == result.GroupedSettings

get_latest_image(result) ==
  IF result.Results # <<>> THEN result.Results[1] ELSE None

\* has_unread_notifications without its exception handler
has_unread_notifications_raising(r) ==
  IF r.pc = "raised"
    THEN [flag |-> FALSE, exc |-> r.exc]
    ELSE [flag |-> r.ret.HasUnreadNotification = "true", exc |-> NoExc]

\* has_unread_notifications, given the call of _request it made: any
\* exception is swallowed and answered with False, a response is answered
\* with its HasUnreadNotification flag, False when it has none
has_unread_notifications(r) ==
  IF r.pc = "raised"
    THEN [flag |-> FALSE, exc |-> NoExc]
    ELSE [flag |-> r.ret.HasUnreadNotification = "true", exc |-> NoExc]

\* save_device_settings: the SettingsSaved flag of the answer, False when
\* the answer has none
save_device_settings(result) == result.SettingsSaved = "true"

\* --------------------------------------------- MoultrieApiClient.login
LoginSteps == <<"authorize", "credentials", "confirmed", "token">>

\* the answers of the identity provider to each step of a login attempt
LoginResponses(step) ==
  CASE step = "authorize"   -> {"ok", "neterr", "http_error", "no_settings",
                                "missing_key"}
    [] step = "credentials" -> {"ok", "neterr", "http_error", "status_not_200"}
    [] step = "confirmed"   -> {"ok", "neterr", "not_redirect", "no_location",
                                "no_code"}
    [] OTHER                -> TokenResponses

\* what _do_login raises for an answer, "" when the step succeeds
LoginStepExc(step, resp) ==
  CASE resp \in {"ok", "full"}      -> NoExc
    [] resp = "neterr"               -> "ClientError"
    [] resp \in {"http_error", "reject"} -> "ClientResponseError"
    [] resp \in {"no_settings", "status_not_200", "not_redirect", "no_code"}
                                     -> "MoultrieAuthError"
    [] OTHER                         -> "KeyError"

IdleLogin == [pc |-> "idle", sent |-> <<>>]

\* entry of login: the authorize GET is sent
StartLogin == [pc |-> "authorize", sent |-> <<"authorize">>]

\* ------------------------------------- MoultrieApiClient.login in detail
\* what the authorize page's settings blob carries, the authorization codes
\* of the redirect, and the Set-Cookie headers of a response (name to value)
Pages == {[csrf |-> "csrf1", transId |-> "tx1"],
          [csrf |-> "csrf2", transId |-> "tx2"]}

Codes == {"code1", "code2"}

CookieNames == {"x-ms-cpim-csrf", "x-ms-cpim-trans"}

EmptyJar == [n \in {} |-> ""]

SetCookies == UNION {[D -> {"a", "b"}] : D \in SUBSET CookieNames}

\* the sessions: the one Home Assistant shares, which the API client uses
\* for its bearer requests, and the one login creates
SharedSession == "hass_session"
LoginSession == "login_session"

\* an answer of the identity provider: its kind as in LoginResponses and
\* the data a successful answer of each step carries
Answer(kind, page, code, set_cookie, at, rt) ==
  [kind |-> kind, page |-> page, code |-> code, set_cookie |-> set_cookie,
   access_token |-> at, refresh_token |-> rt]

Failure(kind) == Answer(kind, [csrf |-> "", transId |-> ""], "", EmptyJar, "", "")

LoginAnswers(step) ==
  {Failure(k) : k \in LoginResponses(step) \ {"ok", "full"}} \cup
  CASE step = "authorize" ->
         {Answer("ok", pg, "", sc, "", "") : pg \in Pages, sc \in SetCookies}
    [] step = "credentials" ->
         {Answer("ok", [csrf |-> "", transId |-> ""], "", sc, "", "") :
            sc \in SetCookies}
    [] step = "confirmed" ->
         {Answer("ok", [csrf |-> "", transId |-> ""], c, sc, "", "") :
            c \in Codes, sc \in SetCookies}
    [] OTHER ->
         {Answer("full", [csrf |-> "", transId |-> ""], "", EmptyJar, at, rt) :
            at \in {"", "access"}, rt \in {"", "refresh"}}

\* _extract_cookies with the accumulator replaced by the response's cookies
extract_cookies_replace(set_cookie, cookies) == set_cookie

\* _extract_cookies: the response's cookies merged into the accumulator
extract_cookies(set_cookie, cookies) ==
  [n \in DOMAIN cookies \cup DOMAIN set_cookie |->
     IF n \in DOMAIN set_cookie THEN set_cookie[n] ELSE cookies[n]]

\* _cookie_header, and the absence of a Cookie header
cookie_header(cookies) == [present |-> TRUE, jar |-> cookies]

NoCookieHeader == [present |-> FALSE, jar |-> EmptyJar]

\* the login calls the model follows in detail
MaxLogins == 2

\* the calls of login so far, the random values the secrets module has
\* handed out (each one new, written as its ordinal), and the PKCE
\* parameters of the requests sent so far
NoPkce == [logins |-> 0, drawn |-> 0, sent |-> {}]

\* the S256 code challenge of a verifier; 0 stands for no verifier
S256(verifier) == [method |-> "S256", digest_of |-> verifier]

NoChallenge == [method |-> "", digest_of |-> 0]

\* the data a config flow step passes on, and the result it returns
NoEntryData ==
  [email |-> "", password |-> "", access_token |-> "", refresh_token |-> ""]

NoResult ==
  [type |-> "", step_id |-> "", error |-> "", reason |-> "", target |-> "",
   data |-> NoEntryData]

IdleFlow ==
  [pc |-> "idle", passed |-> "", session |-> "", closed |-> {},
   cookies |-> EmptyJar, csrf |-> "", trans_id |-> "", code |-> "",
   sent |-> <<>>, answers |-> <<>>, exc |-> NoExc,
   tokens |-> [access_token |-> "", refresh_token |-> ""],
   login |-> 0, verifier |-> 0, challenge |-> NoChallenge, state |-> 0,
   nonce |-> 0, step |-> "", email |-> "", password |-> "",
   result |-> NoResult]

\* the request _do_login sends for a step
DoLoginRequest(step, f) ==
  LET q == [step |-> step, session |-> f.session, csrf |-> "", tx |-> "",
            code |-> "", Cookie |-> NoCookieHeader,
            code_challenge |-> NoChallenge, state |-> 0, nonce |-> 0,
            code_verifier |-> 0]
  IN CASE step = "authorize" ->
            [q EXCEPT !.code_challenge = f.challenge, !.state = f.state,
                      !.nonce = f.nonce]
       [] step = "credentials" ->
            [q EXCEPT !.csrf = f.csrf, !.tx = f.trans_id,
                      !.Cookie = cookie_header(f.cookies)]
       [] step = "confirmed" ->
            [q EXCEPT !.csrf = f.csrf, !.tx = f.trans_id,
                      !.Cookie = cookie_header(f.cookies)]
       [] OTHER -> [q EXCEPT !.code = f.code, !.code_verifier = f.verifier]

\* the PKCE parameters of a request, filed under the login call that sent it
PkceSent(p, f) ==
  LET q == f.sent[Len(f.sent)]
  IN IF q.step \in {"authorize", "token"}
       THEN p.sent \cup {[login |-> f.login, step |-> q.step,
                          code_challenge |-> q.code_challenge,
                          code_verifier |-> q.code_verifier,
                          state |-> q.state, nonce |-> q.nonce]}
       ELSE p.sent

\* login with its requests sent through the session its caller passed
login_start_shared(session, p) ==
  LET f == [IdleFlow EXCEPT !.pc = "authorize", !.passed = session,
                            !.session = session,
                            !.login = p.logins + 1,
                            !.verifier = p.drawn + 1,
                            !.challenge = S256(p.drawn + 1),
                            !.state = p.drawn + 2,
                            !.nonce = p.drawn + 3]
  IN [f EXCEPT !.sent = <<DoLoginRequest("authorize", f)>>]

\* login with verifier, state and nonce drawn once and kept for later calls
login_start_kept(session, p) ==
  LET f == [IdleFlow EXCEPT !.pc = "authorize", !.passed = session,
                            !.session = LoginSession,
                            !.login = p.logins + 1,
                            !.verifier = 1,
                            !.challenge = S256(1),
                            !.state = 2,
                            !.nonce = 3]
  IN [f EXCEPT !.sent = <<DoLoginRequest("authorize", f)>>]

\* entry of login: verifier, state and nonce are drawn and the challenge
\* is computed from the verifier, a session of its own is created and
\* _do_login sends the authorize GET through it
login_start(session, p) ==
  LET f == [IdleFlow EXCEPT !.pc = "authorize", !.passed = session,
                            !.session = LoginSession,
                            !.login = p.logins + 1,
                            !.verifier = p.drawn + 1,
                            !.challenge = S256(p.drawn + 1),
                            !.state = p.drawn + 2,
                            !.nonce = p.drawn + 3]
  IN [f EXCEPT !.sent = <<DoLoginRequest("authorize", f)>>]

\* _do_login going on to the next step whatever the answer was
DoLoginStepUnchecked(f, ans) ==
  LET step == f.pc
      f1 == [f EXCEPT !.answers = Append(@, ans)]
      next == LoginSteps[NthIndex(LoginSteps, step, 1) + 1]
  IN IF step = "token"
       THEN [f1 EXCEPT !.pc = "returned",
                       !.tokens = [access_token |-> ans.access_token,
                                   refresh_token |-> ans.refresh_token]]
       ELSE [f1 EXCEPT !.pc = next,
                       !.sent = Append(@, DoLoginRequest(next, f1))]

\* _do_login, the answer to the step in flight: the step's checks raise, or
\* its data is kept and the next request is sent, or the tokens are returned
DoLoginStep(f, ans) ==
  LET step == f.pc
      exc == LoginStepExc(step, ans.kind)
      read == ans.kind \notin {"neterr", "http_error"}
      f1 == [f EXCEPT !.answers = Append(@, ans)]
      f2 == CASE step = "authorize" /\ read ->
                   [f1 EXCEPT !.cookies = extract_cookies(ans.set_cookie, @),
                              !.csrf = ans.page.csrf,
                              !.trans_id = ans.page.transId]
              [] step = "credentials" /\ read ->
                   [f1 EXCEPT !.cookies = extract_cookies(ans.set_cookie, @)]
              [] step = "confirmed" -> [f1 EXCEPT !.code = ans.code]
              [] OTHER -> f1
      next == LoginSteps[NthIndex(LoginSteps, step, 1) + 1]
  IN IF exc # NoExc
       THEN [f2 EXCEPT !.pc = "raised", !.exc = exc]
       ELSE IF step = "token"
         THEN [f2 EXCEPT !.pc = "returned",
                         !.tokens = [access_token |-> ans.access_token,
                                     refresh_token |-> ans.refresh_token]]
         ELSE [f2 EXCEPT !.pc = next,
                         !.sent = Append(@, DoLoginRequest(next, f2))]

\* login leaving its async with block: the session it created is closed
login_exit(f) ==
  IF f.pc \in {"returned", "raised"}
    THEN [f EXCEPT !.closed = @ \cup {LoginSession}]
    ELSE f

\* ------------------------------------------------------ MoultrieConfigFlow
\* the steps that log in, and what the user submits to each: the email of
\* the entry that exists or another one, and a password
FlowSteps == {"user", "reauth_confirm", "reconfigure_confirm"}

Submissions(step) ==
  CASE step = "user" -> {<<"user@example.com", "new_password">>,
                         <<"new@example.com", "new_password">>}
    [] step = "reauth_confirm" -> {<<"user@example.com", "new_password">>}
    [] OTHER -> {<<"new@example.com", "new_password">>}

\* the form of a step shown again with an error
ShowForm(f, error) ==
  [NoResult EXCEPT !.type = "form", !.step_id = f.step, !.error = error]

\* the data a step hands over after login returned
EntryData(f) ==
  [email |-> f.email, password |-> f.password,
   access_token |-> f.tokens.access_token,
   refresh_token |-> f.tokens.refresh_token]

\* async_step_user after login: the form is shown again with an error, the
\* flow aborts because the email is the unique id of an entry, or the entry
\* is created
async_step_user(f, ent) ==
  [f EXCEPT !.result =
     CASE f.exc = "MoultrieAuthError" -> ShowForm(f, "invalid_auth")
       [] f.exc # NoExc -> ShowForm(f, "cannot_connect")
       [] f.email = ent.email ->
            [NoResult EXCEPT !.type = "abort", !.reason = "already_configured"]
       [] OTHER ->
            [NoResult EXCEPT !.type = "create_entry", !.target = "new",
                             !.data = EntryData(f)]]

\* async_step_reauth_confirm with the entry updated whatever login did
async_step_reauth_confirm_updating(f, ent) ==
  [f EXCEPT !.result =
     [NoResult EXCEPT !.type = "abort", !.reason = "reauth_successful",
                      !.target = "entry", !.data = EntryData(f)]]

\* async_step_reauth_confirm after login: the form is shown again with an
\* error, or the entry is updated and reloaded
async_step_reauth_confirm(f, ent) ==
  [f EXCEPT !.result =
     CASE f.exc = "MoultrieAuthError" -> ShowForm(f, "invalid_auth")
       [] f.exc # NoExc -> ShowForm(f, "cannot_connect")
       [] OTHER ->
            [NoResult EXCEPT !.type = "abort", !.reason = "reauth_successful",
                             !.target = "entry", !.data = EntryData(f)]]

\* async_step_reconfigure_confirm after login
async_step_reconfigure_confirm(f, ent) ==
  [f EXCEPT !.result =
     CASE f.exc = "MoultrieAuthError" -> ShowForm(f, "invalid_auth")
       [] f.exc # NoExc -> ShowForm(f, "cannot_connect")
       [] OTHER ->
            [NoResult EXCEPT !.type = "abort",
                             !.reason = "reconfigure_successful",
                             !.target = "entry", !.data = EntryData(f)]]

\* --------------------------------------------------- MoultrieCoordinator
\* the flat settings lookup by short code: each short code is bound to the
\* setting object of its last occurrence, given here by its position
\* <<group, setting>> in the fetched groups
Positions(groups) ==
  UNION {{<<g, k>> : k \in 1..Len(groups[g])} : g \in 1..Len(groups)}

Before(a, b) == a[1] < b[1] \/ (a[1] = b[1] /\ a[2] < b[2])

\* settings_map with each short code bound to its first occurrence
settings_map_first(groups) ==
  LET pos == {q \in Positions(groups) : groups[q[1]][q[2]].short # ""}
      shorts == {groups[q[1]][q[2]].short : q \in pos}
  IN [s \in shorts |->
        CHOOSE q \in pos :
          /\ groups[q[1]][q[2]].short = s
          /\ \A q2 \in pos : groups[q2[1]][q2[2]].short = s =>
                                (q2 = q \/ Before(q, q2))]

settings_map(groups) ==
  LET pos == {q \in Positions(groups) : groups[q[1]][q[2]].short # ""}
      shorts == {groups[q[1]][q[2]].short : q \in pos}
  IN [s \in shorts |->
        CHOOSE q \in pos :
          /\ groups[q[1]][q[2]].short = s
          /\ \A q2 \in pos : groups[q2[1]][q2[2]].short = s =>
                                (q2 = q \/ Before(q2, q))]

\* DeviceEntry with the last settings group kept only
DeviceEntryLastGroup(device_id, latest_image, settings) ==
  LET kept == IF settings = <<>> THEN <<>> ELSE <<settings[Len(settings)]>>
  IN [info |-> device_id, latest_image |-> latest_image,
      settings_groups |-> kept, settings |-> settings_map(kept)]

\* the snapshot's entry of a device, built from its three fetches
DeviceEntry(device_id, latest_image, settings) ==
  [info |-> device_id, latest_image |-> latest_image,
   settings_groups |-> settings, settings |-> settings_map(settings)]

NoDevices == [d \in {} |-> DeviceEntry(0, None, <<>>)]

NoData == [fetched |-> FALSE, devices |-> NoDevices]

IdleCycle ==
  [pc |-> "idle", outcome |-> "none", devices |-> <<>>, i |-> 0,
   latest_image |-> None, snap |-> NoDevices, calls |-> <<>>,
   logins |-> 0, sig |-> 0, lookups |-> {}, removals |-> {}, registry |-> {},
   failed |-> "", exc |-> NoExc, login_exc |-> NoExc, listed |-> <<>>,
   prior |-> [fetched |-> FALSE, ids |-> {}],
   first |-> [st |-> <<>>, refs |-> <<>>]]

\* the except clauses of _async_update_data: ConfigEntryAuthFailed is
\* re-raised, MoultrieApiError and every other exception become UpdateFailed
CycleOutcome(exc) ==
  CASE exc = "ConfigEntryAuthFailed" -> "ConfigEntryAuthFailed"
    [] exc = "MoultrieApiError"      -> "UpdateFailed"
    [] OTHER                         -> "UpdateFailed"

\* the state a step of the poll cycle leaves behind
Result(c, r, l, known, dat) ==
  [cyc |-> c, req |-> r, login |-> l, known |-> known, data |-> dat]

\* the locals of _async_update_data are gone when it has ended
Ended(c) ==
  [c EXCEPT !.pc = "idle", !.devices = <<>>, !.i = 0, !.latest_image = None,
            !.snap = NoDevices]

\* Fail with the devices fetched so far published as the snapshot
FailPublishing(c, where, exc, known, dat) ==
  Result([Ended(c) EXCEPT !.outcome = CycleOutcome(exc), !.failed = where,
                          !.exc = exc],
         IdleReq, IdleLogin, known, [fetched |-> TRUE, devices |-> c.snap])

\* Fail with the known device ids forgotten
FailForgetting(c, where, exc, known, dat) ==
  Result([Ended(c) EXCEPT !.outcome = CycleOutcome(exc), !.failed = where,
                          !.exc = exc],
         IdleReq, IdleLogin, {}, dat)

\* the cycle ends by raising exc at the step named by where
Fail(c, where, exc, known, dat) ==
  Result([Ended(c) EXCEPT !.outcome = CycleOutcome(exc), !.failed = where,
                          !.exc = exc],
         IdleReq, IdleLogin, known, dat)

\* a client call of the cycle is issued
Call(c, pc, ep, arg, at, known, dat) ==
  Result([c EXCEPT !.pc = pc, !.calls = Append(@, <<ep, arg>>)],
         StartRequest(ep, arg, at), IdleLogin, known, dat)

\* Finish with the signal sent whenever a device is new
FinishSignalAlways(c, known, dat, reg) ==
  LET current_device_ids == Range(c.devices)
      new_devices == current_device_ids \ known
      removed_devices == known \ current_device_ids
      sent == IF new_devices # {} THEN 1 ELSE 0
  IN Result([Ended(c) EXCEPT !.outcome = "ok", !.sig = sent,
                             !.listed = c.devices,
                             !.prior = [fetched |-> dat.fetched, ids |-> known],
                             !.lookups = removed_devices,
                             !.removals = removed_devices \cap reg,
                             !.registry = reg],
            IdleReq, IdleLogin, current_device_ids,
            [fetched |-> TRUE, devices |-> c.snap])

\* Finish with every known device looked up for removal
FinishRemoveKnown(c, known, dat, reg) ==
  LET current_device_ids == Range(c.devices)
      new_devices == current_device_ids \ known
      removed_devices == known
      sent == IF known # {} /\ new_devices # {} THEN 1 ELSE 0
  IN Result([Ended(c) EXCEPT !.outcome = "ok", !.sig = sent,
                             !.listed = c.devices,
                             !.prior = [fetched |-> dat.fetched, ids |-> known],
                             !.lookups = removed_devices,
                             !.removals = removed_devices \cap reg,
                             !.registry = reg],
            IdleReq, IdleLogin, current_device_ids,
            [fetched |-> TRUE, devices |-> c.snap])

\* Finish with no removal when the device list is empty
FinishKeepOnEmpty(c, known, dat, reg) ==
  LET current_device_ids == Range(c.devices)
      new_devices == current_device_ids \ known
      removed_devices == IF current_device_ids = {} THEN {}
                         ELSE known \ current_device_ids
      sent == IF known # {} /\ new_devices # {} THEN 1 ELSE 0
  IN Result([Ended(c) EXCEPT !.outcome = "ok", !.sig = sent,
                             !.listed = c.devices,
                             !.prior = [fetched |-> dat.fetched, ids |-> known],
                             !.lookups = removed_devices,
                             !.removals = removed_devices \cap reg,
                             !.registry = reg],
            IdleReq, IdleLogin, current_device_ids,
            [fetched |-> TRUE, devices |-> c.snap])

\* Finish with the signal sent when the account has more devices than before
FinishSignalOnGrowth(c, known, dat, reg) ==
  LET current_device_ids == Range(c.devices)
      removed_devices == known \ current_device_ids
      sent == IF known # {} /\ Cardinality(current_device_ids) > Cardinality(known)
                THEN 1 ELSE 0
  IN Result([Ended(c) EXCEPT !.outcome = "ok", !.sig = sent,
                             !.listed = c.devices,
                             !.prior = [fetched |-> dat.fetched, ids |-> known],
                             !.lookups = removed_devices,
                             !.removals = removed_devices \cap reg,
                             !.registry = reg],
            IdleReq, IdleLogin, current_device_ids,
            [fetched |-> TRUE, devices |-> c.snap])

\* lines 106-125: new-device signal, removal of stale devices, the known
\* ids are replaced and the snapshot is returned; reg holds the device ids
\* that have an entry in the device registry
Finish(c, known, dat, reg) ==
  LET current_device_ids == Range(c.devices)
      new_devices == current_device_ids \ known
      removed_devices == known \ current_device_ids
      sent == IF known # {} /\ new_devices # {} THEN 1 ELSE 0
  IN Result([Ended(c) EXCEPT !.outcome = "ok", !.sig = sent,
                             !.listed = c.devices,
                             !.prior = [fetched |-> dat.fetched, ids |-> known],
                             !.lookups = removed_devices,
                             !.removals = removed_devices \cap reg,
                             !.registry = reg],
            IdleReq, IdleLogin, current_device_ids,
            [fetched |-> TRUE, devices |-> c.snap])

\* the device loop from device number i on: its first fetch is issued, or
\* the cycle is finished when no device is left
Loop(c, i, at, known, dat, reg) ==
  IF i > Len(c.devices)
    THEN Finish(c, known, dat, reg)
    ELSE Call([c EXCEPT !.i = i], "image", "ImageSearch", c.devices[i], at,
              known, dat)

\* Relogin with the password not looked at
ReloginEmailOnly(c, ent, known, dat) ==
  IF ent.email = ""
    THEN Fail(c, "relogin", "ConfigEntryAuthFailed", known, dat)
    ELSE Result([c EXCEPT !.pc = "relogin", !.logins = @ + 1],
                IdleReq, StartLogin, known, dat)

\* _async_relogin up to its first wait: without stored credentials it
\* raises, otherwise the login attempt starts
Relogin(c, ent, known, dat) ==
  IF ent.email = "" \/ ent.password = ""
    THEN Fail(c, "relogin", "ConfigEntryAuthFailed", known, dat)
    ELSE Result([c EXCEPT !.pc = "relogin", !.logins = @ + 1],
                IdleReq, StartLogin, known, dat)

\* _async_update_data resumed by the end r of the client call it waits for
AfterCall(c, r, at, ent, known, dat, reg) ==
  LET ok == r.pc = "ret"
  IN CASE c.pc = "devices1" ->
            LET c1 == [c EXCEPT !.first = [st |-> r.st, refs |-> r.refs]]
            IN IF ok THEN Loop([c1 EXCEPT !.devices = get_devices(r.ret)], 1,
                               at, known, dat, reg)
               ELSE IF r.exc = "MoultrieAuthError"
                 THEN Relogin(c1, ent, known, dat)
                 ELSE Fail(c1, "devices1", r.exc, known, dat)
       [] c.pc = "devices2" ->
            IF ok THEN Loop([c EXCEPT !.devices = get_devices(r.ret)], 1,
                            at, known, dat, reg)
               ELSE Fail(c, "devices2", r.exc, known, dat)
       [] c.pc = "image" ->
            IF ok THEN Call([c EXCEPT !.latest_image = get_latest_image(r.ret)],
                            "settings", "GroupedSettings", c.devices[c.i], at,
                            known, dat)
               ELSE Fail(c, "image", r.exc, known, dat)
       [] OTHER ->
            IF ok
              THEN LET id == c.devices[c.i]
                       e == DeviceEntry(id, c.latest_image,
                                        get_device_settings(r.ret))
                       snap == [d \in DOMAIN c.snap \cup {id} |->
                                  IF d = id THEN e ELSE c.snap[d]]
                   IN Loop([c EXCEPT !.snap = snap], c.i + 1, at, known, dat, reg)
              ELSE Fail(c, "settings", r.exc, known, dat)

\* AfterLogin with the new pair given to the client and not persisted
AfterLoginNoPersist(c, exc, new, at, rt, ent, known, dat) ==
  CASE exc = "MoultrieAuthError" ->
         [res |-> Fail([c EXCEPT !.login_exc = exc], "relogin",
                       "ConfigEntryAuthFailed", known, dat),
          at |-> at, rt |-> rt, entry |-> ent]
    [] exc # NoExc ->
         [res |-> Fail([c EXCEPT !.login_exc = exc], "relogin", exc, known, dat),
          at |-> at, rt |-> rt, entry |-> ent]
    [] OTHER ->
         [res |-> Call(c, "devices2", "Devices", 0, new, known, dat),
          at |-> new, rt |-> new, entry |-> ent]

\* _async_relogin resumed by the end of login: MoultrieAuthError becomes
\* ConfigEntryAuthFailed, another exception propagates; on success the
\* client's tokens and the config entry take the new pair and the device
\* list is fetched again
AfterLogin(c, exc, new, at, rt, ent, known, dat) ==
  CASE exc = "MoultrieAuthError" ->
         [res |-> Fail([c EXCEPT !.login_exc = exc], "relogin",
                       "ConfigEntryAuthFailed", known, dat),
          at |-> at, rt |-> rt, entry |-> ent]
    [] exc # NoExc ->
         [res |-> Fail([c EXCEPT !.login_exc = exc], "relogin", exc, known, dat),
          at |-> at, rt |-> rt, entry |-> ent]
    [] OTHER ->
         [res |-> Call(c, "devices2", "Devices", 0, new, known, dat),
          at |-> new, rt |-> new,
          entry |-> [ent EXCEPT !.access_token = new, !.refresh_token = new]]

\* ------------------------------------------------ MoultrieOnDemandButton
\* the button that is pressed: the video button of a camera, whose event
\* type is not the default of request_on_demand
Buttons == {[meid |-> "MEID1", event_type |-> "video"]}

NoButton == [meid |-> "", event_type |-> ""]

\* request_on_demand with the event type left at its default
request_on_demand_default(meid, event_type) ==
  [Meid |-> meid, DidConsent |-> TRUE, OnDemandEventType |-> "image"]

\* request_on_demand: the body posted to the OnDemand endpoint
request_on_demand(meid, event_type) ==
  [Meid |-> meid, DidConsent |-> TRUE, OnDemandEventType |-> event_type]

IdlePress == [pc |-> "idle", outcome |-> "none", refreshes |-> 0,
              button |-> NoButton, sent |-> <<>>]

\* async_press with a refresh requested whatever request_on_demand did
AfterPressAlwaysRefresh(p, r) ==
  IF r.pc = "ret"
    THEN [p EXCEPT !.pc = "idle", !.outcome = "ok", !.refreshes = 1]
    ELSE [p EXCEPT !.pc = "idle", !.outcome = "HomeAssistantError",
                   !.refreshes = 1]

\* async_press resumed by the end r of request_on_demand
AfterPress(p, r) ==
  IF r.pc = "ret"
    THEN [p EXCEPT !.pc = "idle", !.outcome = "ok", !.refreshes = 1]
    ELSE [p EXCEPT !.pc = "idle", !.outcome = "HomeAssistantError",
                   !.refreshes = 0]

\* ------------------------------------ MoultrieSettingSwitch, MoultrieSelect
\* the cameras whose settings have the short code
WithSetting(short) ==
  {d \in DeviceIds : short \in DOMAIN settings_map(CloudSettings(d))}

\* the entities the platforms set up: the on-demand switch and the
\* capture-mode select of every camera that has the setting
Switches == {[device_id |-> d, short |-> "ODE"] : d \in WithSetting("ODE")}

Selects == {[device_id |-> d, short |-> "CTD"] : d \in WithSetting("CTD")}

\* device_data is not None: there is a snapshot and it has the device
HasDeviceData(dat, device_id) ==
  dat.fetched /\ device_id \in DOMAIN dat.devices

\* _setting_data: the setting the flat lookup binds the short code to
\* (called when it is not None)
SettingData(d, short) ==
  LET q == d.settings[short] IN d.settings_groups[q[1]][q[2]]

\* info.get("ModemId", 0)
ModemIdOf(info) == IF info = 1 THEN 101 ELSE 0

\* the loops of _set_value and async_select_option with only the setting
\* object of the flat lookup updated
set_values_last(groups, short, value) ==
  LET q == settings_map(groups)[short]
  IN [g \in 1..Len(groups) |->
        [k \in 1..Len(groups[g]) |->
           IF <<g, k>> = q THEN [groups[g][k] EXCEPT !.value = value]
                           ELSE groups[g][k]]]

\* the loops of _set_value and async_select_option: every setting of every
\* group whose short code is the entity's gets the value
set_values(groups, short, value) ==
  [g \in 1..Len(groups) |->
     [k \in 1..Len(groups[g]) |->
        IF groups[g][k].short = short
          THEN [groups[g][k] EXCEPT !.value = value]
          ELSE groups[g][k]]]

\* async_select_option: the value of the first option whose text is the
\* chosen one, the chosen text itself when no option has it
select_value(s, option) ==
  LET idx == {i \in 1..Len(s.options) : s.options[i].Text = option}
  IN IF idx = {} THEN option
     ELSE s.options[CHOOSE i \in idx : \A j \in idx : i <= j].Value

HasShort(s) == s.short # ""

\* the save payload with the settings that have no short code left out
SavePayloadNamedOnly(camera_id, modem_id, settings_groups) ==
  [CameraId |-> camera_id, ModemId |-> modem_id,
   Settings |-> [g \in 1..Len(settings_groups) |->
                   SelectSeq(settings_groups[g], HasShort)]]

\* save_device_settings: the body posted to SaveDeviceSettings
SavePayload(camera_id, modem_id, settings_groups) ==
  [CameraId |-> camera_id, ModemId |-> modem_id, Settings |-> settings_groups]

IdleSetting ==
  [pc |-> "idle", kind |-> "", device_id |-> 0, short |-> "", value |-> "",
   before |-> <<>>, sent |-> <<>>, outcome |-> "none", wrote |-> 0,
   saved |-> FALSE, exc |-> NoExc]

\* _set_value and async_select_option from the loop on, for the entity e and
\* the value to set: the settings groups of the snapshot are updated in
\* place and passed to save_device_settings
SetValue(kind, e, value, dat, at) ==
  LET d == dat.devices[e.device_id]
      groups == set_values(d.settings_groups, e.short, value)
  IN [setting |-> [IdleSetting EXCEPT
                     !.pc = "saving", !.kind = kind,
                     !.device_id = e.device_id, !.short = e.short,
                     !.value = value, !.before = d.settings_groups,
                     !.sent = <<SavePayload(e.device_id, ModemIdOf(d.info),
                                            groups)>>],
      req |-> StartRequest("SaveDeviceSettings", e.device_id, at),
      data |-> [dat EXCEPT !.devices[e.device_id].settings_groups = groups]]

\* the early return with the entity's state written all the same
SkippedWriting(kind, e) ==
  [IdleSetting EXCEPT !.kind = kind, !.device_id = e.device_id,
                      !.short = e.short, !.outcome = "returned", !.wrote = 1]

\* the early return of _set_value and async_select_option
Skipped(kind, e) ==
  [IdleSetting EXCEPT !.kind = kind, !.device_id = e.device_id,
                      !.short = e.short, !.outcome = "returned"]

\* AfterSet with the exception of save_device_settings logged and dropped
AfterSetSwallow(op, r) ==
  IF r.pc = "ret"
    THEN [op EXCEPT !.pc = "idle", !.outcome = "ok", !.wrote = 1,
                    !.saved = save_device_settings(r.ret)]
    ELSE [op EXCEPT !.pc = "idle", !.outcome = "ok", !.wrote = 1,
                    !.exc = r.exc]

\* _set_value and async_select_option resumed by the end r of
\* save_device_settings: an exception becomes HomeAssistantError, otherwise
\* the entity's state is written
AfterSet(op, r) ==
  IF r.pc = "ret"
    THEN [op EXCEPT !.pc = "idle", !.outcome = "ok", !.wrote = 1,
                    !.saved = save_device_settings(r.ret)]
    ELSE [op EXCEPT !.pc = "idle", !.outcome = "HomeAssistantError",
                    !.exc = r.exc]

\* ------------------------------------------------------------ the state
\* --------------------------------------------- _update_tokens_if_changed
IdleListener == [ran |-> FALSE, writes |-> 0]

\* _update_tokens_if_changed with the entry written on every run
update_tokens_always(ent, at, rt) ==
  [entry |-> [ent EXCEPT !.access_token = at, !.refresh_token = rt],
   writes |-> 1]

\* _update_tokens_if_changed: the entry is written, with the client's tokens
\* in place of the stored ones, when one of the two differs
update_tokens_if_changed(ent, at, rt) ==
  IF at # ent.access_token \/ rt # ent.refresh_token
    THEN [entry |-> [ent EXCEPT !.access_token = at, !.refresh_token = rt],
          writes |-> 1]
    ELSE [entry |-> ent, writes |-> 0]

\* ------------------------------------------- a direct caller of the client
\* the client methods a caller other than the integration calls: the
\* unread-notifications check and the latest image of a camera
IdleDirect == [pc |-> "idle", op |-> "", arg |-> 0]

IdleReturn == [op |-> "", arg |-> 0, call |-> IdleReq, flag |-> FALSE,
               image |-> None, exc |-> NoExc]

\* the method d returns or raises once its call r of _request has ended
AfterDirect(d, r) ==
  LET base == [IdleReturn EXCEPT !.op = d.op, !.arg = d.arg, !.call = r]
  IN IF d.op = "has_unread_notifications"
       THEN [base EXCEPT !.flag = has_unread_notifications(r).flag,
                         !.exc = has_unread_notifications(r).exc]
       ELSE IF r.pc = "raised"
         THEN [base EXCEPT !.exc = r.exc]
         ELSE [base EXCEPT !.image = get_latest_image(r.ret)]

CredChoices == {<<"user@example.com", "secret">>, <<"", "secret">>,
                <<"user@example.com", "">>}

NoCalls == [p \in Procs |-> IdleReq]

\* the state after async_setup_entry has built the client and the
\* coordinator from a config entry with the given credentials
Setup(creds) ==
  /\ access_token = 0
  /\ refresh_token = 0
  /\ entry \in {[email |-> c[1], password |-> c[2], access_token |-> 0,
                  refresh_token |-> 0] : c \in creds}
  /\ issued = 0
  /\ cloud \in DeviceLists
  /\ req = NoCalls
  /\ login = IdleLogin
  /\ cyc = IdleCycle
  /\ known_device_ids = {}
  /\ data = NoData
  /\ press = IdlePress
  /\ setting = IdleSetting
  /\ refreshRequested = FALSE
  /\ done = NoCalls
  /\ ended = IdleCycle
  /\ pressed = IdlePress
  /\ applied = IdleSetting
  /\ direct = IdleDirect
  /\ returned = IdleReturn
  /\ flow = IdleFlow
  /\ flowed = IdleFlow
  /\ listener = IdleListener
  /\ pkce = NoPkce

\* the calls in flight after the client's tokens went from at, rt to at2,
\* rt2 in a step of caller p: a call that waits for its retry is no longer
\* alone in having replaced the tokens
Others(p, at2, rt2) ==
  [q \in Procs |->
     IF q # p /\ req[q].pc = "wait2" /\ <<at2, rt2>> # <<access_token, refresh_token>>
       THEN [req[q] EXCEPT !.alone = FALSE]
       ELSE req[q]]

\* the poll cycle moves on to the state res; a cycle that has ended leaves
\* its record in ended
PollCommit(res, at2, rt2) ==
  /\ cyc' = IF res.cyc.pc = "idle" THEN IdleCycle ELSE res.cyc
  /\ ended' = IF res.cyc.pc = "idle" THEN res.cyc ELSE IdleCycle
  /\ req' = [Others("poll", at2, rt2) EXCEPT !["poll"] = res.req]
  /\ login' = res.login
  /\ known_device_ids' = res.known
  /\ data' = res.data

\* a step of caller p's _request leaves the call as r2 and the tokens as
\* at2, rt2; when the call has ended, its caller runs on to its next wait
Apply(p, r2, at2, rt2, iss2) ==
  LET over == r2.pc \in {"ret", "raised"}
      r3 == IF over THEN [r2 EXCEPT !.endTok = <<at2, rt2>>] ELSE r2
  IN /\ access_token' = at2
     /\ refresh_token' = rt2
     /\ issued' = iss2
     /\ done' = IF over THEN [NoCalls EXCEPT ![p] = r3] ELSE NoCalls
     /\ direct' = IF over /\ p = "direct" THEN IdleDirect ELSE direct
     /\ returned' = IF over /\ p = "direct" THEN AfterDirect(direct, r3)
                                              ELSE IdleReturn
     /\ flowed' = IdleFlow
     /\ listener' = IdleListener
     /\ UNCHANGED <<entry, cloud, flow, pkce>>
     /\ IF ~over
          THEN /\ req' = [Others(p, at2, rt2) EXCEPT ![p] = r3]
               /\ ended' = IdleCycle
               /\ pressed' = IdlePress
               /\ applied' = IdleSetting
               /\ UNCHANGED <<login, cyc, known_device_ids, data, press,
                              setting, refreshRequested>>
          ELSE IF p = "poll"
            THEN /\ \E reg \in SUBSET known_device_ids :
                      PollCommit(AfterCall(cyc, r3, at2, entry,
                                           known_device_ids, data, reg),
                                 at2, rt2)
                 /\ pressed' = IdlePress
                 /\ applied' = IdleSetting
                 /\ UNCHANGED <<press, setting, refreshRequested>>
          ELSE IF p = "user"
            THEN /\ req' = [Others(p, at2, rt2) EXCEPT ![p] = IdleReq]
                 /\ press' = IdlePress
                 /\ pressed' = AfterPress(press, r3)
                 /\ refreshRequested' =
                      (refreshRequested \/ AfterPress(press, r3).refreshes > 0)
                 /\ ended' = IdleCycle
                 /\ applied' = IdleSetting
                 /\ UNCHANGED <<login, cyc, known_device_ids, data, setting>>
          ELSE IF p = "setter"
            THEN /\ req' = [Others(p, at2, rt2) EXCEPT ![p] = IdleReq]
                 /\ setting' = IdleSetting
                 /\ applied' = AfterSet(setting, r3)
                 /\ ended' = IdleCycle
                 /\ pressed' = IdlePress
                 /\ UNCHANGED <<login, cyc, known_device_ids, data, press,
                                refreshRequested>>
            ELSE /\ req' = [Others(p, at2, rt2) EXCEPT ![p] = IdleReq]
                 /\ ended' = IdleCycle
                 /\ pressed' = IdlePress
                 /\ applied' = IdleSetting
                 /\ UNCHANGED <<login, cyc, known_device_ids, data, press,
                                setting, refreshRequested>>

\* ---------------------------------------------------------- the actions
\* the update timer fires or a requested refresh runs: _async_update_data
\* starts and fetches the device list
CycleStart ==
  /\ cyc.pc = "idle"
  /\ refreshRequested' = FALSE
  /\ PollCommit(Call(IdleCycle, "devices1", "Devices", 0, access_token,
                     known_device_ids, data),
                access_token, refresh_token)
  /\ done' = NoCalls
  /\ pressed' = IdlePress
  /\ applied' = IdleSetting
  /\ UNCHANGED <<access_token, refresh_token, entry, issued, cloud, press,
                 setting>>
  /\ returned' = IdleReturn
  /\ flowed' = IdleFlow
  /\ listener' = IdleListener
  /\ UNCHANGED <<direct, flow, pkce>>

\* a button is pressed: async_press calls request_on_demand with the
\* button's MEID and event type
PressStart ==
  /\ press.pc = "idle"
  /\ \E b \in Buttons :
       press' = [IdlePress EXCEPT
                   !.pc = "calling", !.button = b,
                   !.sent = <<request_on_demand(b.meid, b.event_type)>>]
  /\ req' = [req EXCEPT !["user"] = StartRequest("OnDemand", 0, access_token)]
  /\ done' = NoCalls
  /\ ended' = IdleCycle
  /\ pressed' = IdlePress
  /\ applied' = IdleSetting
  /\ UNCHANGED <<access_token, refresh_token, entry, issued, cloud, login, cyc,
                 known_device_ids, data, setting, refreshRequested>>
  /\ returned' = IdleReturn
  /\ flowed' = IdleFlow
  /\ listener' = IdleListener
  /\ UNCHANGED <<direct, flow, pkce>>

\* a setting entity e is asked for the value: without device data (or, for
\* a select, without the setting) the call returns at once, otherwise the
\* snapshot's groups are updated and the save request is issued
SetStart(kind, e, value, present) ==
  /\ IF present
       THEN LET o == SetValue(kind, e, value, data, access_token)
            IN /\ setting' = o.setting
               /\ req' = [req EXCEPT !["setter"] = o.req]
               /\ data' = o.data
               /\ applied' = IdleSetting
       ELSE /\ applied' = Skipped(kind, e)
            /\ UNCHANGED <<setting, req, data>>
  /\ done' = NoCalls
  /\ ended' = IdleCycle
  /\ pressed' = IdlePress
  /\ UNCHANGED <<access_token, refresh_token, entry, issued, cloud, login, cyc,
                 known_device_ids, press, refreshRequested>>
  /\ returned' = IdleReturn
  /\ flowed' = IdleFlow
  /\ listener' = IdleListener
  /\ UNCHANGED <<direct, flow, pkce>>

\* a switch is turned on or off: _set_value("T") or _set_value("F"). The
\* entities exist from the platform setup that follows the first refresh
SwitchSet ==
  /\ setting.pc = "idle"
  /\ data.fetched
  /\ \E e \in Switches : \E value \in {"T", "F"} :
       SetStart("switch", e, value, HasDeviceData(data, e.device_id))

\* an option of a select is chosen: async_select_option(option)
SelectOption ==
  /\ setting.pc = "idle"
  /\ data.fetched
  /\ \E e \in Selects : \E option \in {"Low", "High"} :
       LET present == /\ HasDeviceData(data, e.device_id)
                      /\ e.short \in DOMAIN data.devices[e.device_id].settings
       IN SetStart("select", e,
                   IF present
                     THEN select_value(SettingData(data.devices[e.device_id],
                                                   e.short), option)
                     ELSE option,
                   present)

\* a caller holding the client starts method op with argument arg
DirectStart(op, ep, arg) ==
  /\ direct.pc = "idle"
  /\ direct' = [pc |-> "calling", op |-> op, arg |-> arg]
  /\ req' = [req EXCEPT !["direct"] = StartRequest(ep, arg, access_token)]
  /\ returned' = IdleReturn
  /\ flowed' = IdleFlow
  /\ listener' = IdleListener
  /\ UNCHANGED <<flow, pkce>>
  /\ done' = NoCalls
  /\ ended' = IdleCycle
  /\ pressed' = IdlePress
  /\ applied' = IdleSetting
  /\ UNCHANGED <<access_token, refresh_token, entry, issued, cloud, login, cyc,
                 known_device_ids, data, press, setting, refreshRequested>>

\* has_unread_notifications() is called
NotificationsCheck ==
  DirectStart("has_unread_notifications", "HasUnreadNotifications", 0)

\* get_latest_image(camera_id) is called
LatestImage ==
  \E camera_id \in {2, 3} :
    DirectStart("get_latest_image", "ImageSearch", camera_id)

\* the response to the first attempt of p's request arrives
RecvFirst(p) ==
  /\ req[p].pc = "wait1"
  /\ \E status \in ApiStatuses \cup {0} :
       \E body \in (IF status = 200 THEN Bodies(req[p].ep, req[p].arg, cloud)
                                      ELSE {ErrBody}) :
         Apply(p, OnFirst(req[p], status, body, refresh_token),
               access_token, refresh_token, issued)

\* the token endpoint answers the refresh that p's request posted
RecvRefresh(p) ==
  /\ req[p].pc = "waitRefresh"
  /\ \E kind \in TokenResponses :
       LET carries == kind \in {"full", "noRefresh", "noAccess"}
           new == issued + 1
           out == refresh_tokens(kind, access_token, refresh_token, new)
       IN /\ carries => issued < MaxTokens
          /\ Apply(p, OnRefresh(req[p], kind, out, new), out.at, out.rt,
                   IF carries THEN new ELSE issued)

\* the response to the retried attempt of p's request arrives
RecvSecond(p) ==
  /\ req[p].pc = "wait2"
  /\ \E status \in ApiStatuses \cup {0} :
       \E body \in (IF status = 200 THEN Bodies(req[p].ep, req[p].arg, cloud)
                                      ELSE {ErrBody}) :
         Apply(p, OnSecond(req[p], status, body),
               access_token, refresh_token, issued)

\* the identity provider answers the step of the login attempt in flight
LoginStep ==
  /\ login.pc # "idle"
  /\ \E resp \in LoginResponses(login.pc) :
       LET step == login.pc
           exc == LoginStepExc(step, resp)
           carries == step = "token" /\ resp \in {"full", "noRefresh", "noAccess"}
           new == issued + 1
           next == LoginSteps[NthIndex(LoginSteps, step, 1) + 1]
       IN /\ carries => issued < MaxTokens
          /\ issued' = IF carries THEN new ELSE issued
          /\ IF exc = NoExc /\ step # "token"
               THEN /\ login' = [pc |-> next, sent |-> Append(login.sent, next)]
                    /\ ended' = IdleCycle
                    /\ UNCHANGED <<access_token, refresh_token, entry, req,
                                   cyc, known_device_ids, data>>
               ELSE LET a == AfterLogin(cyc, exc, new, access_token,
                                        refresh_token, entry, known_device_ids,
                                        data)
                    IN /\ access_token' = a.at
                       /\ refresh_token' = a.rt
                       /\ entry' = a.entry
                       /\ PollCommit(a.res, a.at, a.rt)
  /\ done' = NoCalls
  /\ pressed' = IdlePress
  /\ applied' = IdleSetting
  /\ UNCHANGED <<cloud, press, setting, refreshRequested>>
  /\ returned' = IdleReturn
  /\ flowed' = IdleFlow
  /\ listener' = IdleListener
  /\ UNCHANGED <<direct, flow, pkce>>

\* a camera is added to or removed from the account
CloudChange ==
  /\ cloud' \in DeviceLists \ {cloud}
  /\ done' = NoCalls
  /\ ended' = IdleCycle
  /\ pressed' = IdlePress
  /\ applied' = IdleSetting
  /\ UNCHANGED <<access_token, refresh_token, entry, issued, req, login, cyc,
                 known_device_ids, data, press, setting, refreshRequested>>
  /\ returned' = IdleReturn
  /\ flowed' = IdleFlow
  /\ listener' = IdleListener
  /\ UNCHANGED <<direct, flow, pkce>>

\* the coordinator notifies its listeners: the listener async_setup_entry
\* registered after the first refresh runs _update_tokens_if_changed
TokenListener ==
  /\ data.fetched
  /\ LET out == update_tokens_if_changed(entry, access_token, refresh_token)
     IN /\ entry' = out.entry
        /\ listener' = [ran |-> TRUE, writes |-> out.writes]
  /\ done' = NoCalls
  /\ ended' = IdleCycle
  /\ pressed' = IdlePress
  /\ applied' = IdleSetting
  /\ returned' = IdleReturn
  /\ flowed' = IdleFlow
  /\ UNCHANGED <<access_token, refresh_token, issued, cloud, req, login, cyc,
                 known_device_ids, data, press, setting, refreshRequested,
                 direct, flow, pkce>>

\* the user submits the form of a config flow step:
\* _async_validate_credentials calls login with the shared session
FlowSubmit ==
  /\ flow.pc = "idle"
  /\ pkce.logins < MaxLogins
  /\ \E step \in FlowSteps : \E sub \in Submissions(step) :
       /\ flow' = [login_start(SharedSession, pkce) EXCEPT
                     !.step = step, !.email = sub[1], !.password = sub[2]]
       /\ pkce' = [logins |-> pkce.logins + 1, drawn |-> pkce.drawn + 3,
                   sent |-> PkceSent(pkce, flow')]
  /\ flowed' = IdleFlow
  /\ done' = NoCalls
  /\ ended' = IdleCycle
  /\ pressed' = IdlePress
  /\ applied' = IdleSetting
  /\ returned' = IdleReturn
  /\ listener' = IdleListener
  /\ UNCHANGED <<access_token, refresh_token, entry, issued, cloud, req, login,
                 cyc, known_device_ids, data, press, setting, refreshRequested,
                 direct>>

\* the identity provider answers the step of the config flow's login; when
\* login ends the step that called it goes on to its result
FlowAnswer ==
  /\ flow.pc \notin {"idle"}
  /\ \E ans \in LoginAnswers(flow.pc) :
       LET f == login_exit(DoLoginStep(flow, ans))
       IN IF f.pc \in {"returned", "raised"}
            THEN /\ flow' = IdleFlow
                 /\ flowed' =
                      CASE f.step = "user" -> async_step_user(f, entry)
                        [] f.step = "reauth_confirm" ->
                             async_step_reauth_confirm(f, entry)
                        [] OTHER -> async_step_reconfigure_confirm(f, entry)
                 /\ pkce' = pkce
            ELSE /\ flow' = f
                 /\ flowed' = IdleFlow
                 /\ pkce' = [pkce EXCEPT !.sent = PkceSent(pkce, f)]
  /\ done' = NoCalls
  /\ ended' = IdleCycle
  /\ pressed' = IdlePress
  /\ applied' = IdleSetting
  /\ returned' = IdleReturn
  /\ listener' = IdleListener
  /\ UNCHANGED <<access_token, refresh_token, entry, issued, cloud, req, login,
                 cyc, known_device_ids, data, press, setting, refreshRequested,
                 direct>>

\* the exceptions a client double raises: the two the client module
\* declares and one unrelated exception
DoubleExceptions == {"MoultrieAuthError", "MoultrieApiError", "RuntimeError"}

\* once the entities are set up, the stand-in returns the settings of
\* camera 1 without the dropdown
DoubleReturnReduced ==
  /\ req["poll"].pc = "wait1"
  /\ req["poll"].ep = "GroupedSettings"
  /\ req["poll"].arg = 1
  /\ data.fetched
  /\ Apply("poll", Returned(req["poll"], Json("json", <<>>, <<>>, ReducedSettings)),
           access_token, refresh_token, issued)

\* p's client call, made on a stand-in for the client, returns or raises
DoubleReturn(p) ==
  /\ req[p].pc = "wait1"
  /\ \/ \E body \in Bodies(req[p].ep, req[p].arg, cloud) :
          Apply(p, Returned(req[p], body), access_token, refresh_token, issued)
     \/ \E e \in DoubleExceptions :
          Apply(p, Raised(req[p], e), access_token, refresh_token, issued)

\* the integration with the real MoultrieApiClient, polling an account whose
\* cameras do not change
Next ==
  \/ CycleStart
  \/ PressStart
  \/ \E p \in Procs : RecvFirst(p)
  \/ \E p \in Procs : RecvRefresh(p)
  \/ \E p \in Procs : RecvSecond(p)

\* the real client raises no MoultrieAuthError, so the stored credentials
\* are never read
Init == Setup({<<"user@example.com", "secret">>})

Spec == Init /\ [][Next]_vars

\* the real client called directly, while the button is pressed
NextApi ==
  \/ NotificationsCheck
  \/ LatestImage
  \/ PressStart
  \/ \E p \in Procs : RecvFirst(p)
  \/ \E p \in Procs : RecvRefresh(p)
  \/ \E p \in Procs : RecvSecond(p)

SpecApi == Init /\ [][NextApi]_vars

\* the real client polling, with the listener that persists its tokens
NextTokens ==
  \/ CycleStart
  \/ TokenListener
  \/ RecvFirst("poll")
  \/ RecvRefresh("poll")
  \/ RecvSecond("poll")

SpecTokens == Init /\ [][NextTokens]_vars

\* the config flow logging in
NextLogin ==
  \/ FlowSubmit
  \/ FlowAnswer

\* the config flow runs beside one entry; what the cloud lists plays no part
InitLogin == Init /\ cloud = <<1>>

SpecLogin == InitLogin /\ [][NextLogin]_vars

\* the coordinator and the button against a stand-in for the client, whose
\* calls return or raise in one step
NextCoord ==
  \/ CycleStart
  \/ PressStart
  \/ \E p \in Procs : DoubleReturn(p)
  \/ LoginStep
  \/ CloudChange

InitCoord == Setup(CredChoices)

SpecCoord == InitCoord /\ [][NextCoord]_vars

\* the setting entities and the coordinator against a stand-in for the
\* client, on an account whose cameras come and go; the config entry has no
\* stored password, so no login is attempted
NextSet ==
  \/ CycleStart
  \/ SwitchSet
  \/ SelectOption
  \/ \E p \in Procs : DoubleReturn(p)
  \/ DoubleReturnReduced
  \/ CloudChange

InitSet == Setup({<<"user@example.com", "">>})

SpecSet == InitSet /\ [][NextSet]_vars

\* the coordinator between the button and a switch, against a stand-in for
\* the client: every operation of the integration that runs beside a poll
\* cycle, on an account whose cameras come and go
NextAll ==
  \/ CycleStart
  \/ PressStart
  \/ SwitchSet
  \/ \E p \in Procs : DoubleReturn(p)
  \/ CloudChange

SpecAll == InitSet /\ [][NextAll]_vars

\* ------------------------------------------------------------ the claims
\* the calls of _request to look at: the one in flight and the one just ended
Calls(p) == {req[p], done[p]}

\* the first attempt was answered 401, the refresh that followed succeeded
\* and the retry was answered with the given status
Refreshed(r, status) ==
  /\ Len(r.st) >= 2 /\ r.st[1] = 401 /\ r.st[2] = status
  /\ Len(r.refs) >= 1 /\ r.refs[1] = "full"

Sends(r) == Count(r.ev, "send")

RefreshPosts(r) == Count(r.ev, "refresh")

\* C1: a call of _request answered 401, refresh ok, 200 returns the payload
\* of the retried response after exactly one refresh post and exactly two
\* attempts; the retry is sent after the refresh completed and carries the
\* refreshed access token; and when the call has ended the client's tokens
\* are the refreshed pair (unless another caller replaced them meanwhile)
C1_RefreshThenRetry ==
  \A p \in Procs :
    LET d == done[p]
    IN Refreshed(d, 200) =>
         /\ d.pc = "ret"
         /\ d.ret = Payload(d.bodies[2])
         /\ RefreshPosts(d) = 1
         /\ Sends(d) = 2
         /\ Len(d.st) = 2
         /\ 0 < NthIndex(d.ev, "refreshed", 1)
         /\ NthIndex(d.ev, "refreshed", 1) < NthIndex(d.ev, "send", 2)
         /\ d.hdr[2] = Headers(d.refPair)
         /\ d.alone => (/\ d.endTok = <<d.refPair, d.refPair>>
                        /\ access_token = d.refPair
                        /\ refresh_token = d.refPair)

C1_Witness ==
  \E p \in Procs :
    /\ Refreshed(done[p], 200)
    /\ done[p].pc = "ret"
    /\ done[p].alone
    /\ done[p].ret.kind = "json"

\* C2: a call of _request answered 401, refresh ok, 401 raises; no second
\* refresh is posted and no third attempt is sent, and the client's tokens
\* are those of the one refresh (unless another caller replaced them)
C2_SecondUnauthorizedRaises ==
  \A p \in Procs :
    /\ \A r \in Calls(p) : RefreshPosts(r) <= 1 /\ Sends(r) <= 2
    /\ LET d == done[p]
       IN Refreshed(d, 401) =>
            /\ d.pc = "raised"
            /\ RefreshPosts(d) = 1
            /\ Sends(d) = 2
            /\ Len(d.st) = 2
            /\ d.refs = <<"full">>
            /\ d.alone => (/\ access_token = d.refPair
                           /\ refresh_token = d.refPair)

C2_Witness ==
  \E p \in Procs :
    /\ Refreshed(done[p], 401)
    /\ done[p].pc = "raised"
    /\ done[p].alone

\* C3: concurrent callers answered 401 do not each post a refresh with the
\* same stored refresh token: no two refresh posts carrying the same refresh
\* token are in flight together
C3_SingleRefreshInFlight ==
  \A p, q \in Procs :
    (p # q /\ req[p].pc = "waitRefresh" /\ req[q].pc = "waitRefresh")
      => req[p].refTok # req[q].refTok

\* C4: a cycle whose first device-list fetch was answered 401 and whose
\* refresh the token endpoint rejected has performed exactly one login and
\* has fetched the device list exactly twice; no cycle performs more than one
\* login or more than two device-list fetches
DeviceFetches(c) == Count(c.calls, <<"Devices", 0>>)

C4_ReloginAfterRejectedRefresh ==
  /\ \A c \in {cyc, ended} : c.logins <= 1 /\ DeviceFetches(c) <= 2
  /\ (ended.outcome # "none" /\ ended.first.st = <<401>>
        /\ ended.first.refs = <<"reject">>)
       => (ended.logins = 1 /\ DeviceFetches(ended) = 2)

\* C5: a refresh the token endpoint rejects, and a retry answered 401 after a
\* successful refresh, both end the call with MoultrieAuthError
C5_AuthErrorRaised ==
  \A p \in Procs :
    LET d == done[p]
    IN /\ (d.refs = <<"reject">>) => d.exc = "MoultrieAuthError"
       /\ Refreshed(d, 401) => d.exc = "MoultrieAuthError"

\* C6: the step in which refresh_tokens fails on an HTTP error status of the
\* token endpoint leaves the client's access token and refresh token as they
\* were
C6_FailedRefreshKeepsTokens ==
  [][\A p \in Procs :
       (req[p].pc = "waitRefresh" /\ done'[p].refs = <<"reject">>)
         => (access_token' = access_token /\ refresh_token' = refresh_token)]_vars

C6_Witness ==
  \E p \in Procs :
    /\ done[p].refs = <<"reject">>
    /\ done[p].pc = "raised"
    /\ done[p].endTok = <<access_token, refresh_token>>

\* C7: in every reachable state the stored access token and refresh token
\* come from the same token response
C7_TokenPairAtomic == access_token = refresh_token

\* C8: when the first device-list fetch raises MoultrieAuthError and the
\* config entry lacks the email or the password, the cycle ends with
\* ConfigEntryAuthFailed in that very step: no login request is issued, the
\* device list is not fetched again, and the client's tokens and the config
\* entry stay as they were
NoCredentials == entry.email = "" \/ entry.password = ""

C8_NoCredentialsIsFatal ==
  [][(/\ cyc.pc = "devices1"
      /\ done'["poll"].exc = "MoultrieAuthError"
      /\ NoCredentials)
       => (/\ cyc'.pc = "idle"
           /\ ended'.outcome = "ConfigEntryAuthFailed"
           /\ ended'.logins = 0
           /\ login' = IdleLogin
           /\ req'["poll"] = IdleReq
           /\ DeviceFetches(ended') = 1
           /\ access_token' = access_token
           /\ refresh_token' = refresh_token
           /\ entry' = entry)]_vars

C8_Witness ==
  /\ NoCredentials
  /\ cyc.pc = "idle"
  /\ ended.failed = "relogin"
  /\ ended.outcome = "ConfigEntryAuthFailed"
  /\ ended.logins = 0
  /\ login = IdleLogin
  /\ done["poll"].exc = "MoultrieAuthError"

\* C9: a cycle that a MoultrieAuthError of one of its fetches has ended
\* has ended with ConfigEntryAuthFailed
Fetches == {"devices1", "devices2", "image", "settings"}

C9_AuthErrorIsReauth ==
  (ended.failed \in Fetches /\ ended.exc = "MoultrieAuthError")
    => ended.outcome = "ConfigEntryAuthFailed"

Baseline == IF data.fetched THEN DOMAIN data.devices ELSE {}

\* the device ids of the device list of the cycle a step has just ended
\* successfully
Current == DOMAIN data'.devices

\* C11: the step that ends a cycle successfully emits the new-device signal
\* exactly once when the previous successful cycle's device ids are
\* non-empty and the current list has an id outside them, and not at all
\* otherwise; the first successful cycle never emits it
C11_NewDeviceSignal ==
  [][ended'.outcome = "ok" =>
       /\ ended'.sig = (IF Baseline # {} /\ Current \ Baseline # {}
                          THEN 1 ELSE 0)
       /\ ~data.fetched => ended'.sig = 0]_vars

C11_Witness ==
  /\ ended.outcome = "ok"
  /\ ended.sig = 1
  /\ known_device_ids = {1, 2}

\* C12: the step that ends a cycle successfully looks up for removal exactly
\* the ids of the previous successful cycle that are absent from the current
\* list and removes those of them that have a registry entry, the others
\* being skipped; no id of the current list is removed and the first
\* successful cycle removes none
C12_RemovalOfVanished ==
  [][ended'.outcome = "ok" =>
       /\ ended'.lookups = Baseline \ Current
       /\ ended'.removals = (Baseline \ Current) \cap ended'.registry
       /\ ended'.removals \cap Current = {}
       /\ ~data.fetched => ended'.removals = {}]_vars

C12_Witness ==
  /\ ended.outcome = "ok"
  /\ ended.lookups = {1, 2}
  /\ ended.removals = {1}
  /\ ended.registry = {1}
  /\ known_device_ids = {}

\* C13 as claimed: a device is removed only in a cycle whose device list is
\* non-empty and only when the previous successful cycle's list was
\* non-empty and lacked the device too
C13_RemovedAfterTwoMisses ==
  [][\A d \in ended'.removals :
       /\ Current # {}
       /\ Baseline # {}
       /\ d \notin Baseline]_vars

\* C13 as amended: a known device is removed in the first successful cycle
\* whose device list lacks it, also when that list is empty, provided the
\* device registry has an entry for it; no other step removes a device
C13_RemovedOnFirstMiss ==
  [][/\ \A d \in Baseline :
          (ended'.outcome = "ok" /\ d \notin Current /\ d \in ended'.registry)
            => d \in ended'.removals
     /\ ended'.removals # {} => (cyc.pc # "idle" /\ ended'.outcome = "ok")]_vars

C13_Witness ==
  /\ ended.outcome = "ok"
  /\ ended.removals = {2}
  /\ ended.registry = {2}
  /\ known_device_ids = {}
  /\ data.fetched
  /\ data.devices = NoDevices

\* C14: a published snapshot is never changed in place: the snapshot
\* consumers read changes only in the step that ends a cycle successfully,
\* which publishes a new one
C14_SnapshotImmutable ==
  [][data' # data => (cyc.pc # "idle" /\ ended'.outcome = "ok")]_vars

\* the setting changes to look at: the one in flight and the one just ended
SetOps == {op \in {setting, applied} : op.sent # <<>>}

Occurrences(groups, short) ==
  {q \in Positions(groups) : groups[q[1]][q[2]].short = short}

\* C16: the structure passed to save_device_settings carries the new value
\* at every occurrence of the entity's short code in every group, and it
\* does so from the moment the one save request is issued
C16_EveryOccurrenceSet ==
  \A op \in SetOps :
    /\ Len(op.sent) = 1
    /\ \A q \in Occurrences(op.sent[1].Settings, op.short) :
         op.sent[1].Settings[q[1]][q[2]].value = op.value

C16_Witness ==
  /\ setting.pc = "saving"
  /\ req["setter"].pc = "wait1"
  /\ setting.kind = "switch"
  /\ setting.value = "T"
  /\ Cardinality(Occurrences(setting.before, setting.short)) = 2
  /\ \E q \in Occurrences(setting.before, setting.short) :
       setting.before[q[1]][q[2]].value = "F"

\* C17: the step that issues a save sends the device's settings groups as
\* the snapshot had them: the same groups in the same order, in each group
\* the same settings in the same order, each with its short code and
\* options, and only settings with the entity's short code differ in value
C17_FullStructureSent ==
  [][(setting.pc = "idle" /\ setting'.pc = "saving") =>
       LET id == setting'.device_id
           old == data.devices[id].settings_groups
           new == setting'.sent[1].Settings
       IN /\ setting'.sent[1].CameraId = id
          /\ Len(new) = Len(old)
          /\ \A g \in 1..Len(old) :
               /\ Len(new[g]) = Len(old[g])
               /\ \A k \in 1..Len(old[g]) :
                    /\ new[g][k].short = old[g][k].short
                    /\ new[g][k].options = old[g][k].options
                    /\ new[g][k].value # old[g][k].value
                         => old[g][k].short = setting'.short]_vars

C17_Witness ==
  /\ setting.pc = "saving"
  /\ setting.kind = "select"
  /\ setting.value = "H"
  /\ Len(setting.sent[1].Settings) = 2
  /\ Len(setting.sent[1].Settings[1]) = 3
  /\ setting.sent[1].Settings[1][2].short = ""

\* C18: a setting change whose save was answered without SettingsSaved
\* true does not end as a success and does not write the entity's state
C18_UnconfirmedSaveFails ==
  (applied.sent # <<>> /\ done["setter"].pc = "ret"
     /\ ~save_device_settings(done["setter"].ret))
    => (applied.outcome # "ok" /\ applied.wrote = 0)

\* C19: a setting change whose save_device_settings raised ends with
\* HomeAssistantError, caused by that exception, and async_write_ha_state is
\* not called
C19_SaveErrorSurfaces ==
  (applied.sent # <<>> /\ done["setter"].pc = "raised")
    => /\ applied.outcome = "HomeAssistantError"
       /\ applied.wrote = 0
       /\ applied.exc = done["setter"].exc
       /\ applied.exc # NoExc

C19_Witness ==
  /\ applied.sent # <<>>
  /\ applied.kind = "select"
  /\ done["setter"].exc = "RuntimeError"
  /\ applied.outcome = "HomeAssistantError"

\* C20: a press has issued exactly one on-demand request, with the button's
\* MEID and event type, and requests no refresh while it waits; the step
\* that ends the request requests exactly one refresh when it succeeded, and
\* raises HomeAssistantError and requests none when it raised
C20_PressThenRefresh ==
  [][/\ press'.pc = "calling" =>
          /\ press'.sent = <<[Meid |-> press'.button.meid,
                              DidConsent |-> TRUE,
                              OnDemandEventType |-> press'.button.event_type]>>
          /\ press'.refreshes = 0
          /\ press.pc = "idle" => refreshRequested' = refreshRequested
     /\ (press.pc = "calling" /\ done'["user"].pc = "ret") =>
          /\ pressed'.outcome = "ok"
          /\ pressed'.refreshes = 1
          /\ pressed'.sent = press.sent
          /\ refreshRequested'
     /\ (press.pc = "calling" /\ done'["user"].pc = "raised") =>
          /\ pressed'.outcome = "HomeAssistantError"
          /\ pressed'.refreshes = 0
          /\ pressed'.sent = press.sent
          /\ refreshRequested' = refreshRequested]_vars

C20_Witness ==
  /\ pressed.outcome = "HomeAssistantError"
  /\ pressed.button.event_type = "video"
  /\ Len(pressed.sent) = 1
  /\ done["user"].exc = "MoultrieApiError"
  /\ ~refreshRequested

\* C21: a setting change that has ended successfully has requested a
\* coordinator refresh
C21_SettingChangeRefreshes ==
  (applied.sent # <<>> /\ applied.outcome = "ok") => refreshRequested

\* C22: the step in which the first response to _request has an error
\* status other than 401 ends the call with MoultrieApiError after that one
\* attempt, with no refresh posted and the client's tokens as they were
C22_ApiErrorOnFirstResponse ==
  [][\A p \in Procs :
       (/\ req[p].pc = "wait1"
        /\ done'[p].pc # "idle"
        /\ done'[p].st[1] \notin {0, 200, 401})
         => /\ done'[p].pc = "raised"
            /\ done'[p].exc = "MoultrieApiError"
            /\ Sends(done'[p]) = 1
            /\ RefreshPosts(done'[p]) = 0
            /\ access_token' = access_token
            /\ refresh_token' = refresh_token]_vars

\* C24: a call of _request whose last response was successful returns: the
\* empty object when that response had an empty body, the parsed body
\* otherwise, on the first attempt and on the retried one alike; no call
\* that received a successful response raises
C24_EmptyBodyIsEmptyObject ==
  \A p \in Procs :
    LET d == done[p]
        n == Len(d.st)
    IN (d.pc # "idle" /\ n >= 1 /\ d.st[n] = 200) =>
         /\ d.pc = "ret"
         /\ d.exc = NoExc
         /\ Len(d.bodies) = n
         /\ d.bodies[n].kind = "empty" => d.ret = EmptyObject
         /\ d.bodies[n].kind # "empty" => d.ret = d.bodies[n]

C24_Witness ==
  \E p \in Procs :
    /\ Refreshed(done[p], 200)
    /\ done[p].bodies[2].kind = "empty"
    /\ done[p].ret = EmptyObject

\* C23: has_unread_notifications never raises; it answers False when its
\* request failed (error status, network error, failed refresh after a 401)
\* and otherwise the response's HasUnreadNotification flag, False when the
\* response has none
C23_NotificationsNeverRaise ==
  returned.op = "has_unread_notifications" =>
    /\ returned.exc = NoExc
    /\ returned.call.pc = "raised" => returned.flag = FALSE
    /\ returned.call.pc = "ret" =>
         (returned.flag <=> returned.call.ret.HasUnreadNotification = "true")

C23_Witness ==
  /\ returned.op = "has_unread_notifications"
  /\ returned.call.pc = "raised"
  /\ returned.call.refs = <<"reject">>
  /\ returned.flag = FALSE

\* C25: get_latest_image returns the first element of the nested results
\* array when it is not empty, and None, without raising, when the array is
\* empty or the response has no results wrapper
C25_LatestImageIsFirst ==
  (returned.op = "get_latest_image" /\ returned.call.pc = "ret") =>
    LET results == returned.call.ret.Results
    IN /\ returned.exc = NoExc
       /\ results # <<>> => returned.image = results[1]
       /\ results = <<>> => returned.image = None

C25_Witness ==
  /\ returned.op = "get_latest_image"
  /\ returned.call.ret = EmptyObject
  /\ returned.image = None

\* the login attempts the claims speak of: the one in flight and the one
\* the last step ended
Attempts == {f \in {flow, flowed} : f.pc # "idle"}

\* C26: a login attempt that has ended either returned a pair of non-empty
\* tokens or raised MoultrieAuthError
C26_TokensOrAuthError ==
  flowed.pc # "idle" =>
    \/ /\ flowed.pc = "returned"
       /\ flowed.tokens.access_token # ""
       /\ flowed.tokens.refresh_token # ""
    \/ /\ flowed.pc = "raised"
       /\ flowed.exc = "MoultrieAuthError"

\* C27: the requests of a login attempt are the steps in their order, each
\* sent only after every earlier step was answered successfully; once an
\* answer fails a step nothing more is sent; the credential POST carries the
\* CSRF token and transaction id of the authorize page, and the token POST
\* the code of the confirmed step's redirect
C27_StepsInOrder ==
  \A f \in Attempts :
    LET n == Len(f.sent)
    IN /\ [i \in 1..n |-> f.sent[i].step] = SubSeq(LoginSteps, 1, n)
       /\ Len(f.answers) \in {n - 1, n}
       /\ \A i \in 1..Len(f.answers) :
            f.answers[i].kind \notin {"ok", "full"} =>
              /\ n = i
              /\ f.pc = "raised"
       /\ n >= 2 => /\ f.sent[2].csrf = f.answers[1].page.csrf
                    /\ f.sent[2].tx = f.answers[1].page.transId
                    /\ f.answers[1].page \in Pages
       /\ n >= 4 => /\ f.sent[4].code = f.answers[3].code
                    /\ f.answers[3].code \in Codes

C27_Witness ==
  /\ flowed.pc = "returned"
  /\ Len(flowed.sent) = 4
  /\ flowed.sent[2].csrf = "csrf2"
  /\ flowed.sent[2].tx = "tx2"
  /\ flowed.sent[4].code = "code2"

\* C28: a login attempt whose last answer was a step mismatch (no settings
\* blob, a settings blob lacking a key, a credential status other than
\* "200", no redirect, a redirect without code) ended with MoultrieAuthError
C28_MismatchIsAuthError ==
  \A f \in Attempts :
    LET n == Len(f.answers)
    IN (n >= 1 /\ f.answers[n].kind \in {"no_settings", "missing_key",
                                           "status_not_200", "not_redirect",
                                           "no_code"}) =>
         /\ f.pc = "raised"
         /\ f.exc = "MoultrieAuthError"

\* the cookies set by the first k answers, a later value replacing an
\* earlier one of the same name
Accumulated(answers, k) ==
  LET names == UNION {DOMAIN answers[i].set_cookie : i \in 1..k}
      last(n) == CHOOSE i \in 1..k :
                   /\ n \in DOMAIN answers[i].set_cookie
                   /\ \A j \in (i + 1)..k : n \notin DOMAIN answers[j].set_cookie
  IN [n \in names |-> answers[last(n)].set_cookie[n]]

\* C29 as stated: every request after the authorize GET carries a Cookie
\* header holding the cookies accumulated from all earlier answers
C29_CookiesOnEveryLaterCall ==
  \A f \in Attempts :
    \A i \in 2..Len(f.sent) :
      f.sent[i].Cookie = [present |-> TRUE, jar |-> Accumulated(f.answers, i - 1)]

\* C29: the credential POST and the confirmed GET carry a Cookie header
\* holding the cookies accumulated from all earlier answers of the attempt,
\* a later value replacing an earlier one of the same name and no name being
\* dropped; the authorize GET and the token POST carry no Cookie header
C29_CookiesOnCredentialAndConfirmed ==
  \A f \in Attempts :
    LET n == Len(f.sent)
    IN /\ \A i \in 1..n :
            IF i \in {2, 3}
              THEN f.sent[i].Cookie =
                     [present |-> TRUE, jar |-> Accumulated(f.answers, i - 1)]
              ELSE ~f.sent[i].Cookie.present
       /\ n >= 3 => DOMAIN f.sent[2].Cookie.jar \subseteq DOMAIN f.sent[3].Cookie.jar

C29_Witness ==
  /\ flow.pc = "token"
  /\ flow.answers[1].set_cookie = [n \in CookieNames |-> "a"]
  /\ flow.answers[2].set_cookie = [n \in {"x-ms-cpim-csrf"} |-> "b"]
  /\ flow.sent[3].Cookie.jar =
       [n \in CookieNames |-> IF n = "x-ms-cpim-csrf" THEN "b" ELSE "a"]
  /\ ~flow.sent[4].Cookie.present

\* C30: every request of a login attempt goes through the session login
\* created for it, never through the session passed to login, which is the
\* one the API client uses; the created session is open while the attempt
\* runs and closed once it has ended, by return or by exception
C30_DedicatedSession ==
  \A f \in Attempts :
    /\ f.passed = SharedSession
    /\ \A i \in 1..Len(f.sent) :
         /\ f.sent[i].session = LoginSession
         /\ f.sent[i].session # f.passed
    /\ f.pc \in {"returned", "raised"} <=> f.closed = {LoginSession}
    /\ f.pc \notin {"returned", "raised"} <=> f.closed = {}

C30_Witness ==
  /\ flowed.pc = "raised"
  /\ Len(flowed.sent) = 2
  /\ flowed.passed = SharedSession
  /\ flowed.closed = {LoginSession}

\* the setting change a step has started: in flight, or already returned
StartedOp == IF setting'.pc # "idle" THEN setting' ELSE applied'

\* the entity of the operation has no device data in the snapshot or, for a
\* select, no setting of its short code in the device's settings index
Absent(op, dat) ==
  \/ ~HasDeviceData(dat, op.device_id)
  \/ /\ op.kind = "select"
     /\ op.short \notin DOMAIN dat.devices[op.device_id].settings

\* C34: a switch or select change asked of an entity whose device is absent
\* from the snapshot (or, for a select, whose short code is absent from the
\* device's settings index) returns at once: no save request is sent, no
\* state is written, no error is raised and the snapshot stays as it was;
\* with the device and the setting present the save request is sent
C34_AbsentDeviceIsNoOp ==
  [][(setting.pc = "idle" /\ StartedOp.kind # "") =>
       IF Absent(StartedOp, data)
         THEN /\ applied' = StartedOp
              /\ applied'.outcome = "returned"
              /\ applied'.sent = <<>>
              /\ applied'.wrote = 0
              /\ applied'.exc = NoExc
              /\ setting' = IdleSetting
              /\ req'["setter"] = IdleReq
              /\ data' = data
         ELSE /\ setting'.pc = "saving"
              /\ Len(setting'.sent) = 1
              /\ req'["setter"].ep = "SaveDeviceSettings"]_vars

C34_Witness ==
  /\ applied.outcome = "returned"
  /\ applied.kind = "select"
  /\ HasDeviceData(data, applied.device_id)
  /\ applied.short \notin DOMAIN data.devices[applied.device_id].settings

C34_WitnessNoDevice ==
  /\ applied.outcome = "returned"
  /\ applied.kind = "switch"
  /\ data.fetched
  /\ ~HasDeviceData(data, applied.device_id)

\* C35: the step in which the login of _async_relogin returns gives the
\* client both tokens of the returned pair and writes the same pair to the
\* config entry, whose email and password stay as they were; the step in
\* which it raises MoultrieAuthError ends the cycle with
\* ConfigEntryAuthFailed and changes neither the client's tokens nor the
\* config entry
C35_ReloginReplacesBothTokens ==
  [][cyc.pc = "relogin" =>
       /\ cyc'.pc = "devices2" =>
            /\ access_token' = issued'
            /\ refresh_token' = issued'
            /\ issued' = issued + 1
            /\ entry'.access_token = access_token'
            /\ entry'.refresh_token = refresh_token'
            /\ entry'.email = entry.email
            /\ entry'.password = entry.password
            /\ req'["poll"].hdr = <<Headers(access_token')>>
       /\ ended'.login_exc = "MoultrieAuthError" =>
            /\ ended'.outcome = "ConfigEntryAuthFailed"
            /\ access_token' = access_token
            /\ refresh_token' = refresh_token
            /\ entry' = entry]_vars

C35_Witness ==
  /\ cyc.pc = "devices2"
  /\ access_token = 1
  /\ refresh_token = 1
  /\ entry.access_token = 1
  /\ entry.refresh_token = 1
  /\ entry.password = "secret"

C35_WitnessFailed ==
  /\ ended.login_exc = "MoultrieAuthError"
  /\ ended.outcome = "ConfigEntryAuthFailed"
  /\ entry.access_token = 0

\* C37: the step that ends a cycle successfully leaves _known_device_ids
\* equal to the device-id key set of the snapshot it publishes; every other
\* step (a failed cycle, a setting change, a capture request, a fetch in
\* flight) leaves it as it was
C37_KnownIdsFollowSnapshot ==
  [][IF ended'.outcome = "ok"
       THEN /\ known_device_ids' = DOMAIN data'.devices
            /\ known_device_ids' = Range(ended'.listed)
       ELSE known_device_ids' = known_device_ids]_vars

C37_Witness ==
  /\ ended.outcome = "UpdateFailed"
  /\ known_device_ids = {1}
  /\ cloud = <<2>>
  /\ data.devices[1].settings_groups # CloudSettings(1)
  /\ refreshRequested

\* C36: in the snapshot a successful cycle publishes, the device-id keys are
\* the ids of the fetched device list, each device had one latest-image
\* fetch and one settings fetch, settings_groups is the fetched structure
\* with every duplicate, and the settings index has exactly the non-empty
\* short codes of the groups as keys, each bound to its last occurrence
C36_SnapshotOfSuccessfulCycle ==
  ended.outcome = "ok" =>
    /\ data.fetched
    /\ DOMAIN data.devices = Range(ended.listed)
    /\ Len(ended.calls) = DeviceFetches(ended) + 2 * Len(ended.listed)
    /\ \A id \in DOMAIN data.devices :
         LET d == data.devices[id]
             groups == d.settings_groups
         IN /\ Count(ended.calls, <<"ImageSearch", id>>) = 1
            /\ Count(ended.calls, <<"GroupedSettings", id>>) = 1
            /\ d.latest_image = get_latest_image(Json("json", <<>>, CloudImages(id), <<>>))
            /\ groups = CloudSettings(id)
            /\ DOMAIN d.settings =
                 {groups[q[1]][q[2]].short : q \in Positions(groups)} \ {""}
            /\ \A s \in DOMAIN d.settings :
                 /\ d.settings[s] \in Occurrences(groups, s)
                 /\ \A q \in Occurrences(groups, s) :
                      q = d.settings[s] \/ Before(q, d.settings[s])

C36_Witness ==
  /\ ended.outcome = "ok"
  /\ ended.listed = <<1, 2>>
  /\ data.devices[1].settings = [s \in {"ODE", "CTD"} |->
                                   IF s = "ODE" THEN <<2, 1>> ELSE <<2, 2>>]
  /\ Len(data.devices[1].settings_groups[1]) = 3
  /\ DOMAIN data.devices[2].settings = {}

\* C40 as stated: a device id in the snapshot of a successful cycle other
\* than the first that was not in the previous successful cycle's snapshot
\* is announced by the new-device signal of that cycle
C40_EveryNewDeviceAnnounced ==
  (/\ ended.outcome = "ok"
   /\ ended.prior.fetched
   /\ Range(ended.listed) \ ended.prior.ids # {})
    => ended.sig = 1

\* C40: a device id in the snapshot of a successful cycle other than the
\* first that was not in the previous successful cycle's snapshot is
\* announced by the new-device signal of that cycle when the previous
\* snapshot had at least one device, and is not announced when the previous
\* successful cycle returned an empty device list
C40_NewDeviceAnnouncedAfterNonEmpty ==
  (/\ ended.outcome = "ok"
   /\ ended.prior.fetched
   /\ Range(ended.listed) \ ended.prior.ids # {})
    => /\ ended.prior.ids # {} => ended.sig = 1
       /\ ended.prior.ids = {} => ended.sig = 0

C40_Witness ==
  /\ ended.outcome = "ok"
  /\ ended.prior.fetched
  /\ ended.prior.ids = {}
  /\ ended.listed = <<1>>
  /\ ended.sig = 0

C40_WitnessAnnounced ==
  /\ ended.outcome = "ok"
  /\ ended.prior.ids = {1}
  /\ ended.listed = <<2>>
  /\ ended.sig = 1

\* the last occurrence of a short code among the positions occ
LastOf(occ) == CHOOSE q \in occ : \A q2 \in occ : q2 = q \/ Before(q2, q)

\* C38: in every state, for each device of the snapshot and each short code
\* of its settings index, the setting read through the index has that short
\* code and its value is the value of the last occurrence of the short code
\* in the device's settings_groups
C38_IndexAgreesWithGroups ==
  \A id \in DOMAIN data.devices :
    LET d == data.devices[id]
    IN \A s \in DOMAIN d.settings :
         LET occ == Occurrences(d.settings_groups, s)
         IN /\ occ # {}
            /\ SettingData(d, s).short = s
            /\ SettingData(d, s).value =
                 d.settings_groups[LastOf(occ)[1]][LastOf(occ)[2]].value

C38_Witness ==
  /\ applied.outcome = "HomeAssistantError"
  /\ applied.kind = "switch"
  /\ HasDeviceData(data, 1)
  /\ data.devices[1].settings_groups[1][1].value = "T"
  /\ data.devices[1].settings_groups[2][1].value = "T"
  /\ data.devices[1].settings_groups[2][2].value = "H"
  /\ SettingData(data.devices[1], "CTD").value = "H"

\* the value the failed change op had found for its setting
ValueBefore(op) ==
  op.before[LastOf(Occurrences(op.before, op.short))[1]]
           [LastOf(Occurrences(op.before, op.short))[2]].value

\* C39: a value whose save raised is not shown as the setting's state once
\* the change has failed, and the save payload of a change of another
\* setting of the device that starts next does not contain it
C39_FailedValueDiscarded ==
  [][/\ (/\ applied'.outcome = "HomeAssistantError"
         /\ ValueBefore(applied') # applied'.value
         /\ HasDeviceData(data', applied'.device_id)
         /\ applied'.short \in DOMAIN data'.devices[applied'.device_id].settings)
          => SettingData(data'.devices[applied'.device_id],
                         applied'.short).value # applied'.value
     /\ (/\ applied.outcome = "HomeAssistantError"
         /\ ValueBefore(applied) # applied.value
         /\ setting.pc = "idle"
         /\ setting'.pc = "saving"
         /\ setting'.device_id = applied.device_id
         /\ setting'.short # applied.short)
          => \A q \in Occurrences(setting'.sent[1].Settings, applied.short) :
               setting'.sent[1].Settings[q[1]][q[2]].value # applied.value]_vars

\* C32: a run of _update_tokens_if_changed writes the config entry exactly
\* when the client's access or refresh token differs from the stored one;
\* after it the stored tokens are the client's, email and password are as
\* they were, and a run that follows at once writes nothing
C32_TokensPersistedWhenChanged ==
  [][listener'.ran =>
       /\ listener'.writes =
            (IF access_token # entry.access_token
                \/ refresh_token # entry.refresh_token THEN 1 ELSE 0)
       /\ listener'.writes = 0 => entry' = entry
       /\ entry'.access_token = access_token
       /\ entry'.refresh_token = refresh_token
       /\ access_token' = access_token
       /\ refresh_token' = refresh_token
       /\ entry'.email = entry.email
       /\ entry'.password = entry.password
       /\ listener.ran => listener'.writes = 0]_vars

C32_Witness ==
  /\ listener.ran
  /\ listener.writes = 1
  /\ entry.access_token = 2
  /\ entry.refresh_token = 1
  /\ entry.password = "secret"

C32_WitnessNoChange ==
  /\ listener.ran
  /\ listener.writes = 0
  /\ entry.access_token = 1

\* the verifiers a logged request carries, as itself or under its challenge
VerifiersOf(e) == {e.code_verifier, e.code_challenge.digest_of} \ {0}

\* C31: a login call draws verifier, state and nonce anew at its start and
\* derives the challenge from that verifier; its authorize request carries
\* that challenge, state and nonce, the verifier is sent in its token
\* exchange only, and no verifier or challenge of one login call is sent in
\* a request of another
C31_PkcePerAttempt ==
  /\ \A f \in Attempts :
       /\ {f.verifier, f.state, f.nonce} \subseteq
            (3 * (f.login - 1) + 1)..(3 * f.login)
       /\ Cardinality({f.verifier, f.state, f.nonce}) = 3
       /\ f.challenge = S256(f.verifier)
       /\ f.sent[1].code_challenge = S256(f.verifier)
       /\ f.sent[1].state = f.state
       /\ f.sent[1].nonce = f.nonce
       /\ \A i \in 1..Len(f.sent) :
            /\ f.sent[i].code_verifier # 0 =>
                 f.sent[i].step = "token" /\ f.sent[i].code_verifier = f.verifier
            /\ f.sent[i].step = "token" => f.sent[i].code_verifier = f.verifier
  /\ \A a, b \in pkce.sent :
       a.login # b.login => VerifiersOf(a) \cap VerifiersOf(b) = {}

C31_Witness ==
  /\ flowed.pc = "returned"
  /\ flowed.login = 2
  /\ \E a, b \in pkce.sent :
       /\ a.login = 1 /\ a.step = "token" /\ a.code_verifier = 1
       /\ b.login = 2 /\ b.step = "token" /\ b.code_verifier = 4

\* C33: a config flow step creates or updates an entry only when login
\* returned, and then with the submitted email and password and the tokens
\* login returned; when login raised MoultrieAuthError the step's form is
\* shown again with invalid_auth, on any other exception with
\* cannot_connect, and neither creates nor updates an entry
C33_EntryOnlyAfterLogin ==
  flowed.pc # "idle" =>
    LET r == flowed.result
    IN /\ flowed.step \in FlowSteps
       /\ r.target # "" =>
            /\ flowed.pc = "returned"
            /\ flowed.exc = NoExc
            /\ r.data.email = flowed.email
            /\ r.data.password = flowed.password
            /\ r.data.access_token =
                 flowed.answers[Len(flowed.answers)].access_token
            /\ r.data.refresh_token =
                 flowed.answers[Len(flowed.answers)].refresh_token
            /\ r.target = (IF flowed.step = "user" THEN "new" ELSE "entry")
            /\ r.type = (IF flowed.step = "user" THEN "create_entry"
                                                 ELSE "abort")
       /\ flowed.pc = "returned" /\ flowed.step # "user" => r.target = "entry"
       /\ flowed.pc = "returned" /\ flowed.step = "user"
            /\ flowed.email # entry.email => r.target = "new"
       /\ flowed.pc = "raised" =>
            /\ r.type = "form"
            /\ r.step_id = flowed.step
            /\ r.error = (IF flowed.exc = "MoultrieAuthError"
                            THEN "invalid_auth" ELSE "cannot_connect")
            /\ r.target = ""
            /\ r.data = NoEntryData

C33_Witness ==
  /\ flowed.step = "reauth_confirm"
  /\ flowed.pc = "returned"
  /\ flowed.result.target = "entry"
  /\ flowed.result.data =
       [email |-> "user@example.com", password |-> "new_password",
        access_token |-> "access", refresh_token |-> "refresh"]

C33_WitnessCreated ==
  /\ flowed.step = "user"
  /\ flowed.result.type = "create_entry"
  /\ flowed.result.data.email = "new@example.com"

C33_WitnessInvalidAuth ==
  /\ flowed.step = "reauth_confirm"
  /\ flowed.exc = "MoultrieAuthError"
  /\ flowed.result.error = "invalid_auth"

C33_WitnessCannotConnect ==
  /\ flowed.step = "reconfigure_confirm"
  /\ flowed.exc = "ClientError"
  /\ flowed.result.error = "cannot_connect"

\* with the real client no login attempt is ever started
NoLoginInSpec == login = IdleLogin /\ cyc.logins = 0 /\ ended.logins = 0

====
